---------------------------- MODULE Spec2Model ----------------------------
(***************************************************************************)
(* Model of the Convex backend of the rime messaging application:          *)
(* phone/OTP sign-in and sessions (convex/auth.ts), organizations and      *)
(* their members (convex/organizations.ts, convex/members.ts),             *)
(* organization and workspace invitations (convex/invitations.ts),         *)
(* messages, reactions and read receipts (convex/messages.ts) and file     *)
(* metadata (convex/files.ts).                                             *)
(*                                                                         *)
(* A table is a set of rows, or a sequence of rows in insertion order      *)
(* where `.first()` has to pick the earliest of several rows.  The clock   *)
(* `now` stands for Date.now() and counts seconds (the code counts         *)
(* milliseconds; every duration of the code is a whole number of seconds). *)
(* A handler is one action.  Statements of a handler run in order, and a   *)
(* write made before a `throw` stays written, as the specification of the  *)
(* store describes (row-level atomicity only).  `last` is the response of  *)
(* the most recent call: the operation and either "ok" with the returned   *)
(* value or the message of the error thrown.                               *)
(*                                                                         *)
(* No handler of convex/ writes users.email, which members.ts and          *)
(* invitations.ts read: the address of a profile is data of the            *)
(* deployment, and the signed-in users of InitSignedIn start with or       *)
(* without one.  Rows of reactions carry no order that a handler reads,    *)
(* so the table is a bag of rows.                                          *)
(***************************************************************************)
EXTENDS Integers, Sequences, FiniteSets, Bags, TLC

VARIABLES
  now,        \* Date.now(), in seconds
  users,      \* table users: rows [id, phone, status, email]
  sessions,   \* table sessions: rows [userId, token, expiresAt]
  otps,       \* table otps by phone: rows [code, expiresAt, isUsed]
  nextToken,  \* the next value generateSessionToken() returns
  organizations,   \* table organizations: rows [slug, createdBy, isActive]
  orgMembers,      \* table organizationMembers
  orgInvitations,  \* table organizationInvitations; _id = position
  workspaces,      \* table workspaces: rows [organizationId, createdBy,
                   \*   isArchived]; _id = position, and the position of
                   \*   a deleted row holds [deleted |-> TRUE]
  wsMembers,       \* table workspaceMembers
  wsInvitations,   \* table workspaceInvitations; _id = position
  messages,        \* table messages; _id = position
  reactions,       \* table reactions, as a bag of rows
  messageReads,    \* table messageReads: rows [messageId, userId,
                   \*   organizationId, readAt]
  files,           \* table files: rows carry their _id
  blobs,           \* storage ids held by the blob store
  nextFile,        \* the _id the next files row gets
  nextBlob,        \* the storage id the next upload gets
  inFlight,        \* per client, the call whose handler is between two of
                   \*   its awaits, or Idle
  last        \* response of the most recent call

authVars == <<users, sessions, otps, nextToken>>
orgVars == <<organizations, orgMembers, orgInvitations>>
wsVars == <<workspaces, wsMembers, wsInvitations>>
msgVars == <<messages, reactions, messageReads>>
fileVars == <<files, blobs, nextFile, nextBlob>>
dataVars == <<orgVars, wsVars, msgVars, fileVars, inFlight>>
vars == <<now, authVars, dataVars, last>>

\* the client connections that can have a call in progress at the same time
Clients == {1, 2}

\* no call of the client is in progress
Idle == [op |-> "none"]

(***************************************************************************)
(* Bounds of the model.                                                    *)
(***************************************************************************)
NumPhones == 2
NumCodes == 2
MaxTokens == 2
MaxInvitations == 2
MaxWorkspaces == 1
MaxMessages == 1
MaxBlobs == 2
MaxFiles == 2
MaxWsInvitations == 2
MaxReplies == 1

Phones == 1..NumPhones
\* Math.floor(10000 + Math.random() * 90000): the first NumCodes codes
Codes == 10000..(10000 + NumCodes - 1)
\* token 0 is the empty string; tokens 1.. are generated values
EmptyToken == 0
Tokens == 0..MaxTokens

(***************************************************************************)
(* Durations of the code, in seconds.                                      *)
(***************************************************************************)
OtpTtl == 15 * 60
SessionTtl == 30 * 24 * 60 * 60
InviteTtl == 7 * 24 * 60 * 60
\* fifteenMinutes of messages.edit, in seconds
EditWindow == 15 * 60

NoUser == 0
NoEmail == "undefined"

(***************************************************************************)
(* Helpers standing for the query builder of the store.                    *)
(***************************************************************************)
RECURSIVE Filter(_, _)
\* rows of the sequence s, in order, that belong to the set keep
Filter(s, keep) ==
  IF s = <<>> THEN <<>>
  ELSE IF Head(s) \in keep THEN <<Head(s)>> \o Filter(Tail(s), keep)
  ELSE Filter(Tail(s), keep)

Rows(s) == {s[i] : i \in 1..Len(s)}

\* .delete of every row in the set gone
Without(s, gone) == Filter(s, Rows(s) \ gone)

(***************************************************************************)
(* convex/auth.ts                                                          *)
(***************************************************************************)
\* otps .withIndex('by_phone', q => q.eq('phone', phone)), insertion order
OtpsByPhone(phone) == otps[phone]

\* users .withIndex('by_phone', ...).first(): the _id, or NoUser
UserIdByPhone(phone) ==
  IF \E u \in users : u.phone = phone
  THEN (CHOOSE u \in users : u.phone = phone).id
  ELSE NoUser

\* ctx.db.get(userId) on the users table
UserById(userId) == CHOOSE u \in users : u.id = userId

\* sessions .withIndex('by_token', q => q.eq('token', token))
SessionsByToken(token) == {s \in sessions : s.token = token}

\* a sign-in that forgets to purge the user's earlier sessions
OldSessionsKept(userId) == {}

\* sessions .withIndex('by_user', q => q.eq('userId', user._id)).collect()
OldSessions(userId) == {s \in sessions : s.userId = userId}

\* an expiry test that already rejects at the instant of expiry
ExpiredAtInstant(row) == now >= row.expiresAt

\* Date.now() > row.expiresAt
Expired(row) == now > row.expiresAt

\* getCurrentUser / getCurrentUserFromToken: the user id, or NoUser for null
getCurrentUserFromToken(token) ==
  IF token = EmptyToken THEN NoUser
  ELSE IF SessionsByToken(token) = {} THEN NoUser
  ELSE LET session == CHOOSE s \in SessionsByToken(token) : TRUE IN
       IF Expired(session) THEN NoUser
       ELSE IF \E u \in users : u.id = session.userId THEN session.userId
       ELSE NoUser

\* a generateOTP that keeps the earlier OTP rows of the phone
generateOTPKeepsOld(phone) ==
  \E code \in Codes :
    /\ otps' = [otps EXCEPT ![phone] =
                  Append(@, [code |-> code, expiresAt |-> now + OtpTtl,
                             isUsed |-> FALSE])]
    /\ last' = [op |-> "generateOTP", res |-> "ok"]
    /\ UNCHANGED <<now, users, sessions, nextToken, dataVars>>

generateOTP(phone) ==
  \E code \in Codes :
    /\ otps' = [otps EXCEPT ![phone] =
                  <<[code |-> code, expiresAt |-> now + OtpTtl,
                     isUsed |-> FALSE]>>]
    /\ last' = [op |-> "generateOTP", res |-> "ok"]
    /\ UNCHANGED <<now, users, sessions, nextToken, dataVars>>

\* a verification that leaves the OTP row as it was
MarkUsedSkipped(phone) == otps

\* ctx.db.patch(otp._id, { isUsed: true }) on the first OTP row of the phone
MarkUsed(phone) == [otps EXCEPT ![phone][1].isUsed = TRUE]

\* the users table after the find-or-create step of verifyOTP; the _id of
\* the row created for a phone is named after the phone
UpsertUser(phone) ==
  IF UserIdByPhone(phone) = NoUser
  THEN users \cup {[id |-> phone, phone |-> phone, status |-> "online",
                    email |-> NoEmail]}
  ELSE (users \ {UserById(UserIdByPhone(phone))})
         \cup {[UserById(UserIdByPhone(phone)) EXCEPT !.status = "online"]}

\* a verification that compares the code before it looks at isUsed
verifyOTPCodeFirst(phone, code) ==
  LET found == OtpsByPhone(phone)
      otp == Head(found)
      fail(msg) == last' = [op |-> "verifyOTP", res |-> msg,
                            phone |-> phone, code |-> code]
  IN
  IF found = <<>> THEN
    /\ fail("No OTP found for this phone number")
    /\ UNCHANGED <<now, authVars, dataVars>>
  ELSE IF Expired(otp) THEN
    /\ otps' = [otps EXCEPT ![phone] = Tail(found)]
    /\ fail("OTP has expired")
    /\ UNCHANGED <<now, users, sessions, nextToken, dataVars>>
  ELSE IF otp.code # code THEN
    /\ fail("Invalid OTP code")
    /\ UNCHANGED <<now, authVars, dataVars>>
  ELSE IF otp.isUsed THEN
    /\ fail("OTP has already been used")
    /\ UNCHANGED <<now, authVars, dataVars>>
  ELSE
    /\ nextToken <= MaxTokens
    /\ otps' = MarkUsed(phone)
    /\ users' = UpsertUser(phone)
    /\ LET userId == IF UserIdByPhone(phone) = NoUser THEN phone
                     ELSE UserIdByPhone(phone)
       IN /\ sessions' = (sessions \ OldSessions(userId))
                           \cup {[userId |-> userId, token |-> nextToken,
                                  expiresAt |-> now + SessionTtl]}
          /\ last' = [op |-> "verifyOTP", res |-> "ok", phone |-> phone,
                      code |-> code, user |-> userId,
                      sessionToken |-> nextToken]
    /\ nextToken' = nextToken + 1
    /\ UNCHANGED <<now, dataVars>>

verifyOTP(phone, code) ==
  LET found == OtpsByPhone(phone)
      otp == Head(found)
      fail(msg) == last' = [op |-> "verifyOTP", res |-> msg,
                            phone |-> phone, code |-> code]
  IN
  IF found = <<>> THEN
    /\ fail("No OTP found for this phone number")
    /\ UNCHANGED <<now, authVars, dataVars>>
  ELSE IF Expired(otp) THEN
    /\ otps' = [otps EXCEPT ![phone] = Tail(found)]
    /\ fail("OTP has expired")
    /\ UNCHANGED <<now, users, sessions, nextToken, dataVars>>
  ELSE IF otp.isUsed THEN
    /\ fail("OTP has already been used")
    /\ UNCHANGED <<now, authVars, dataVars>>
  ELSE IF otp.code # code THEN
    /\ fail("Invalid OTP code")
    /\ UNCHANGED <<now, authVars, dataVars>>
  ELSE
    /\ nextToken <= MaxTokens
    /\ otps' = MarkUsed(phone)
    /\ users' = UpsertUser(phone)
    /\ LET userId == IF UserIdByPhone(phone) = NoUser THEN phone
                     ELSE UserIdByPhone(phone)
       IN /\ sessions' = (sessions \ OldSessions(userId))
                           \cup {[userId |-> userId, token |-> nextToken,
                                  expiresAt |-> now + SessionTtl]}
          /\ last' = [op |-> "verifyOTP", res |-> "ok", phone |-> phone,
                      code |-> code, user |-> userId,
                      sessionToken |-> nextToken]
    /\ nextToken' = nextToken + 1
    /\ UNCHANGED <<now, dataVars>>

getCurrentUser(token) ==
  /\ last' = [op |-> "getCurrentUser", res |-> "ok", sessionToken |-> token,
              user |-> getCurrentUserFromToken(token)]
  /\ UNCHANGED <<now, authVars, dataVars>>

signOut(token) ==
  LET found == SessionsByToken(token) IN
  /\ IF found # {}
     THEN LET session == CHOOSE s \in found : TRUE IN
          /\ users' = (users \ {UserById(session.userId)})
               \cup {[UserById(session.userId) EXCEPT !.status = "offline"]}
          /\ sessions' = sessions \ {session}
     ELSE UNCHANGED <<users, sessions>>
  /\ last' = [op |-> "signOut", res |-> "ok"]
  /\ UNCHANGED <<now, otps, nextToken, dataVars>>

\* a sweep that also collects the sessions expiring at this very instant
ExpiredSessionsInclusive == {s \in sessions : s.expiresAt <= now}

\* sessions .filter(q => q.lt(q.field('expiresAt'), now)).collect()
ExpiredSessions == {s \in sessions : s.expiresAt < now}

cleanupExpiredSessions ==
  /\ sessions' = sessions \ ExpiredSessions
  /\ last' = [op |-> "cleanupExpiredSessions", res |-> "ok",
              deletedCount |-> Cardinality(ExpiredSessions)]
  /\ UNCHANGED <<now, users, otps, nextToken, dataVars>>

\* the clock advances to the instant t
Tick(t) ==
  /\ t > now
  /\ now' = t
  /\ last' = [op |-> "tick", res |-> "ok"]
  /\ UNCHANGED <<authVars, dataVars>>

(***************************************************************************)
(* Responses of the handlers below.                                        *)
(***************************************************************************)
\* the handler returned (res = "ok") or threw the error res
Reply(op, res) == last' = [op |-> op, res |-> res]

\* the handler returned the value ret
Return(op, ret) == last' = ([op |-> op, res |-> "ok"] @@ ret)

\* the handler threw msg before any write
Throw(op, msg) ==
  /\ Reply(op, msg)
  /\ UNCHANGED <<now, authVars, dataVars>>

\* ctx.db.patch(user._id, { firstName, lastName, updatedAt }): the row
\* gains or replaces the two name fields and keeps every other field
updateUserName(firstName, lastName, token) ==
  LET found == SessionsByToken(token)
      op == "updateUserName"
  IN
  IF found = {} \/ Expired(CHOOSE s \in found : TRUE)
    THEN Throw(op, "Invalid or expired session")
  ELSE LET session == CHOOSE s \in found : TRUE IN
    IF ~\E u \in users : u.id = session.userId
      THEN Throw(op, "User not found")
    ELSE
      /\ users' = (users \ {UserById(session.userId)})
           \cup {[firstName |-> firstName, lastName |-> lastName]
                   @@ UserById(session.userId)}
      /\ Reply(op, "ok")
      /\ UNCHANGED <<now, sessions, otps, nextToken, dataVars>>

\* position of the first row of the sequence s that belongs to keep
IndexOfFirst(s, keep) ==
  CHOOSE i \in 1..Len(s) :
    s[i] \in keep /\ \A j \in 1..(i - 1) : s[j] \notin keep

\* ctx.db.delete of the row at position i
RemoveAt(s, i) == SubSeq(s, 1, i - 1) \o SubSeq(s, i + 1, Len(s))

(***************************************************************************)
(* convex/organizations.ts (kept in src/convex/schemas/auth.ts)            *)
(***************************************************************************)
\* organizationMembers .withIndex('by_org_user', ...) for one pair
OrgMemberRows(orgId, userId) ==
  {m \in Rows(orgMembers) : m.organizationId = orgId /\ m.userId = userId}

HasOrgMembership(orgId, userId) == OrgMemberRows(orgId, userId) # {}

\* ... .first() of that query
OrgMembership(orgId, userId) ==
  orgMembers[IndexOfFirst(orgMembers, OrgMemberRows(orgId, userId))]

\* ['owner', 'admin'].includes(membership.role)
IsOwnerOrAdmin(membership) == membership.role \in {"owner", "admin"}

organizationsCreate(slug, token) ==
  LET user == getCurrentUserFromToken(token)
      op == "organizations.create"
      orgId == Len(organizations) + 1
  IN
  IF user = NoUser THEN Throw(op, "Not authenticated")
  ELSE IF \E o \in Rows(organizations) : o.slug = slug
    THEN Throw(op, "Organization slug already exists")
  ELSE
    /\ organizations' = Append(organizations,
         [slug |-> slug, createdBy |-> user, isActive |-> TRUE])
    /\ orgMembers' = Append(orgMembers,
         [organizationId |-> orgId, userId |-> user, role |-> "owner",
          canCreateWorkspaces |-> TRUE, canInviteMembers |-> TRUE,
          canManageBilling |-> TRUE, status |-> "active"])
    /\ Return(op, [org |-> orgId])
    /\ UNCHANGED <<now, inFlight, authVars, orgInvitations, wsVars, msgVars,
                   fileVars>>

organizationsRemove(orgId, token) ==
  LET user == getCurrentUserFromToken(token)
      op == "organizations.remove"
  IN
  IF user = NoUser THEN Throw(op, "Not authenticated")
  ELSE IF \/ ~HasOrgMembership(orgId, user)
          \/ OrgMembership(orgId, user).role # "owner"
    THEN Throw(op, "Only owners can delete organizations")
  ELSE
    /\ organizations' = [organizations EXCEPT ![orgId].isActive = FALSE]
    /\ Reply(op, "ok")
    /\ UNCHANGED <<now, inFlight, authVars, orgMembers, orgInvitations,
                   wsVars,
                   msgVars, fileVars>>

\* organizationMembers by_user, filtered on status active, as positions
ActiveMembershipsOfUser(userId) ==
  {i \in 1..Len(orgMembers) :
     /\ orgMembers[i].userId = userId
     /\ orgMembers[i].status = "active"}

\* organizationMembers by_organization, filtered on status active
ActiveMembers(orgId) ==
  {i \in 1..Len(orgMembers) :
     /\ orgMembers[i].organizationId = orgId
     /\ orgMembers[i].status = "active"}

\* the response keeps the _ids of the organizations returned
getUserOrganizations(token) ==
  LET user == getCurrentUserFromToken(token)
      op == "getUserOrganizations"
  IN
  IF user = NoUser THEN Throw(op, "Not authenticated")
  ELSE
    /\ Return(op,
         [organizations |->
            {orgMembers[i].organizationId :
               i \in {k \in ActiveMembershipsOfUser(user) :
                        /\ orgMembers[k].organizationId
                             \in 1..Len(organizations)
                        /\ organizations[orgMembers[k].organizationId]
                             .isActive}}])
    /\ UNCHANGED <<now, authVars, dataVars>>

getOrganization(orgId, token) ==
  LET user == getCurrentUserFromToken(token)
      op == "getOrganization"
  IN
  IF user = NoUser THEN Throw(op, "Not authenticated")
  ELSE IF orgId \notin 1..Len(organizations) \/ ~organizations[orgId].isActive
    THEN Throw(op, "Organization not found")
  ELSE IF \/ ~HasOrgMembership(orgId, user)
          \/ OrgMembership(orgId, user).status # "active"
    THEN Throw(op, "No access to organization")
  ELSE
    /\ Return(op, [organizationId |-> orgId,
                   memberCount |-> Cardinality(ActiveMembers(orgId))])
    /\ UNCHANGED <<now, authVars, dataVars>>

\* the response keeps the userIds of the rows returned
getOrganizationMembers(orgId, token) ==
  LET user == getCurrentUserFromToken(token)
      op == "getOrganizationMembers"
  IN
  IF user = NoUser THEN Throw(op, "Not authenticated")
  ELSE IF \/ ~HasOrgMembership(orgId, user)
          \/ OrgMembership(orgId, user).status # "active"
    THEN Throw(op, "No access to organization")
  ELSE
    /\ Return(op, [organizationId |-> orgId,
                   members |-> {orgMembers[i].userId :
                                  i \in ActiveMembers(orgId)}])
    /\ UNCHANGED <<now, authVars, dataVars>>

\* the response keeps the _ids of the invitations returned
getOrganizationInvitations(orgId, token) ==
  LET user == getCurrentUserFromToken(token)
      op == "getOrganizationInvitations"
  IN
  IF user = NoUser THEN Throw(op, "Not authenticated")
  ELSE IF \/ ~HasOrgMembership(orgId, user)
          \/ OrgMembership(orgId, user).status # "active"
    THEN Throw(op, "No access to organization")
  ELSE IF /\ ~OrgMembership(orgId, user).canInviteMembers
          /\ ~IsOwnerOrAdmin(OrgMembership(orgId, user))
    THEN Throw(op, "Not authorized to view invitations")
  ELSE
    /\ Return(op, [organizationId |-> orgId,
                   invitations |->
                     {i \in 1..Len(orgInvitations) :
                        /\ orgInvitations[i].organizationId = orgId
                        /\ orgInvitations[i].status = "pending"}])
    /\ UNCHANGED <<now, authVars, dataVars>>

\* utils hasOrganizationPermission: the membership exists, is active, and
\* grants the permission through its flag or its role
hasOrganizationPermission(userId, organizationId, permission) ==
  IF ~HasOrgMembership(organizationId, userId) THEN FALSE
  ELSE LET membership == OrgMembership(organizationId, userId) IN
    IF membership.status # "active" THEN FALSE
    ELSE CASE permission = "canCreateWorkspaces" ->
                membership.canCreateWorkspaces \/ IsOwnerOrAdmin(membership)
           [] permission = "canInviteMembers" ->
                membership.canInviteMembers \/ IsOwnerOrAdmin(membership)
           [] permission = "canManageBilling" ->
                membership.canManageBilling \/ membership.role = "owner"
           [] permission = "isAdmin" -> IsOwnerOrAdmin(membership)
           [] OTHER -> FALSE

(***************************************************************************)
(* convex/members.ts: organization members                                 *)
(***************************************************************************)
\* users .withIndex('by_email', q => q.eq('email', email))
UsersByEmail(email) == {u \in users : u.email = email}

\* a test for an existing membership that never finds one
ExistingMembershipNever(orgId, userId) == FALSE

\* existingMembership: organizationMembers by_org_user of the user who is
\* about to join, .first() is not null
ExistingMembership(orgId, userId) ==
  \E i \in 1..Len(orgMembers) :
    /\ orgMembers[i].organizationId = orgId
    /\ orgMembers[i].userId = userId

\* the caller may invite: the canInviteMembers flag or an owner/admin role
MayInvite(orgId, userId) ==
  /\ HasOrgMembership(orgId, userId)
  /\ \/ OrgMembership(orgId, userId).canInviteMembers
     \/ IsOwnerOrAdmin(OrgMembership(orgId, userId))

addToOrganization(orgId, userEmail, role, ccw, cim, token) ==
  LET user == getCurrentUserFromToken(token)
      op == "addToOrganization"
  IN
  IF user = NoUser THEN Throw(op, "Not authenticated")
  ELSE IF ~MayInvite(orgId, user)
    THEN Throw(op, "Not authorized to invite members")
  ELSE IF UsersByEmail(userEmail) = {} THEN Throw(op, "User not found")
  ELSE LET target == CHOOSE u \in UsersByEmail(userEmail) :
                       \A w \in UsersByEmail(userEmail) : u.id <= w.id
       IN
    IF ExistingMembership(orgId, target.id)
      THEN Throw(op, "User is already a member")
    ELSE
      /\ orgMembers' = Append(orgMembers,
           [organizationId |-> orgId, userId |-> target.id, role |-> role,
            canCreateWorkspaces |-> ccw, canInviteMembers |-> cim,
            canManageBilling |-> FALSE, status |-> "active"])
      /\ Reply(op, "ok")
      /\ UNCHANGED <<now, inFlight, authVars, organizations, orgInvitations,
                     wsVars,
                     msgVars, fileVars>>

\* an optional boolean argument: "unset" stands for undefined
OptFlag(old, opt) == IF opt = "unset" THEN old ELSE opt = "true"

updateOrganizationMemberRole(orgId, memberId, role, ccw, cim, cmb, token) ==
  LET user == getCurrentUserFromToken(token)
      op == "updateOrganizationMemberRole"
  IN
  IF user = NoUser THEN Throw(op, "Not authenticated")
  ELSE IF \/ ~HasOrgMembership(orgId, user)
          \/ ~IsOwnerOrAdmin(OrgMembership(orgId, user))
    THEN Throw(op, "Not authorized")
  ELSE IF ~HasOrgMembership(orgId, memberId)
    THEN Throw(op, "Member not found")
  ELSE IF role = "owner" /\ OrgMembership(orgId, user).role # "owner"
    THEN Throw(op, "Only owners can grant ownership")
  ELSE
    LET i == IndexOfFirst(orgMembers, OrgMemberRows(orgId, memberId))
        old == orgMembers[i]
    IN
    /\ orgMembers' = [orgMembers EXCEPT ![i] =
         [old EXCEPT
            !.role = role,
            !.canCreateWorkspaces = OptFlag(old.canCreateWorkspaces, ccw),
            !.canInviteMembers = OptFlag(old.canInviteMembers, cim),
            !.canManageBilling = OptFlag(old.canManageBilling, cmb)]]
    /\ Reply(op, "ok")
    /\ UNCHANGED <<now, inFlight, authVars, organizations, orgInvitations,
                   wsVars,
                   msgVars, fileVars>>

\* organizationMembers by_organization, filtered on role = 'owner'
OwnerRows(orgId) ==
  {i \in 1..Len(orgMembers) :
     orgMembers[i].organizationId = orgId /\ orgMembers[i].role = "owner"}

\* a last-owner test that lets the last owner go
LastOwnerNever(orgId) == FALSE

\* ownerCount.length <= 1
LastOwner(orgId) == Cardinality(OwnerRows(orgId)) <= 1

\* a cascade that collects the user's workspace memberships of every
\* organization
WsMembershipsOfUser(orgId, userId) ==
  {i \in 1..Len(wsMembers) : wsMembers[i].userId = userId}

\* workspaceMembers .withIndex('by_org_user', ...).collect(), as positions
WsMembershipsInOrg(orgId, userId) ==
  {i \in 1..Len(wsMembers) :
     wsMembers[i].organizationId = orgId /\ wsMembers[i].userId = userId}

removeFromOrganization(orgId, memberId, token) ==
  LET user == getCurrentUserFromToken(token)
      op == "removeFromOrganization"
  IN
  IF user = NoUser THEN Throw(op, "Not authenticated")
  ELSE IF ~HasOrgMembership(orgId, memberId)
    THEN Throw(op, "Member not found")
  ELSE IF ~( \/ memberId = user
             \/ /\ HasOrgMembership(orgId, user)
                /\ IsOwnerOrAdmin(OrgMembership(orgId, user)) )
    THEN Throw(op, "Not authorized")
  ELSE IF OrgMembership(orgId, memberId).role = "owner" /\ LastOwner(orgId)
    THEN Throw(op, "Cannot remove the last owner")
  ELSE
    /\ wsMembers' = Filter(wsMembers,
         {wsMembers[i] : i \in (1..Len(wsMembers))
                              \ WsMembershipsInOrg(orgId, memberId)})
    /\ orgMembers' = RemoveAt(orgMembers,
         IndexOfFirst(orgMembers, OrgMemberRows(orgId, memberId)))
    /\ Return(op, [memberId |-> memberId,
                   role |-> OrgMembership(orgId, memberId).role])
    /\ UNCHANGED <<now, inFlight, authVars, organizations, orgInvitations,
                   workspaces,
                   wsInvitations, msgVars, fileVars>>

(***************************************************************************)
(* convex/workspaces.ts: create                                            *)
(***************************************************************************)
\* the ids ctx.db.get finds in table workspaces
ExistingWorkspaces ==
  {w \in 1..Len(workspaces) : workspaces[w] # [deleted |-> TRUE]}

workspacesCreate(orgId, token) ==
  LET user == getCurrentUserFromToken(token)
      op == "workspaces.create"
      workspaceId == Len(workspaces) + 1
  IN
  IF user = NoUser THEN Throw(op, "Not authenticated")
  ELSE IF \/ ~HasOrgMembership(orgId, user)
          \/ OrgMembership(orgId, user).status # "active"
    THEN Throw(op, "No access to organization")
  ELSE IF /\ ~OrgMembership(orgId, user).canCreateWorkspaces
          /\ ~IsOwnerOrAdmin(OrgMembership(orgId, user))
    THEN Throw(op, "Not authorized to create workspaces")
  ELSE
    /\ Len(workspaces) < MaxWorkspaces
    /\ workspaces' = Append(workspaces,
         [organizationId |-> orgId, createdBy |-> user,
          isArchived |-> FALSE])
    /\ wsMembers' = Append(wsMembers,
         [workspaceId |-> workspaceId, userId |-> user,
          organizationId |-> orgId, role |-> "admin"])
    /\ Return(op, [workspace |-> workspaceId])
    /\ UNCHANGED <<now, inFlight, authVars, orgVars, wsInvitations, msgVars,
                   fileVars>>

(***************************************************************************)
(* convex/invitations.ts: organization invitations.  The inviteToken of a  *)
(* row is named after the row's position; generateSecureToken() returns a  *)
(* fresh value for every row.                                              *)
(***************************************************************************)
\* the same query without the filter on status
PendingInvitationsAnyStatus(orgId, email) ==
  {i \in 1..Len(orgInvitations) :
     /\ orgInvitations[i].organizationId = orgId
     /\ orgInvitations[i].email = email}

\* organizationInvitations by_organization, filtered on email and pending
PendingInvitations(orgId, email) ==
  {i \in 1..Len(orgInvitations) :
     /\ orgInvitations[i].organizationId = orgId
     /\ orgInvitations[i].email = email
     /\ orgInvitations[i].status = "pending"}

\* a test for an earlier invitation that never finds one
ExistingInvitationNever(orgId, email) == FALSE

\* existingInvitation is not null
ExistingInvitation(orgId, email) == PendingInvitations(orgId, email) # {}

createOrganizationInvitation(orgId, email, role, ccw, cim, token) ==
  LET user == getCurrentUserFromToken(token)
      op == "createOrganizationInvitation"
      invitationId == Len(orgInvitations) + 1
  IN
  IF user = NoUser THEN Throw(op, "Not authenticated")
  ELSE IF ~MayInvite(orgId, user)
    THEN Throw(op, "Not authorized to send invitations")
  ELSE IF \E u \in UsersByEmail(email) :
            /\ \A w \in UsersByEmail(email) : u.id <= w.id
            /\ HasOrgMembership(orgId, u.id)
    THEN Throw(op, "User is already a member")
  ELSE IF ExistingInvitation(orgId, email)
    THEN Throw(op, "Invitation already sent")
  ELSE
    /\ Len(orgInvitations) < MaxInvitations
    /\ orgInvitations' = Append(orgInvitations,
         [organizationId |-> orgId, email |-> email,
          inviteToken |-> invitationId, role |-> role,
          canCreateWorkspaces |-> ccw, canInviteMembers |-> cim,
          invitedBy |-> user, expiresAt |-> now + InviteTtl,
          status |-> "pending"])
    /\ Return(op, [invitation |-> invitationId])
    /\ UNCHANGED <<now, inFlight, authVars, organizations, orgMembers, wsVars,
                   msgVars, fileVars>>

\* organizationInvitations .withIndex('by_token', ...), as positions
InvitationsByToken(inviteToken) ==
  {i \in 1..Len(orgInvitations) :
     orgInvitations[i].inviteToken = inviteToken}

\* a patch of the status that is never written
SetInvitationStatusSkipped(i, status) == orgInvitations

\* ctx.db.patch(invitation._id, { status })
SetInvitationStatus(i, status) ==
  [orgInvitations EXCEPT ![i].status = status]

\* an acceptance that does not compare the caller's email with the
\* invitation's
acceptOrganizationInvitationAnyEmail(inviteToken, token) ==
  LET user == getCurrentUserFromToken(token)
      op == "acceptOrganizationInvitation"
  IN
  IF user = NoUser THEN Throw(op, "Not authenticated")
  ELSE IF InvitationsByToken(inviteToken) = {}
    THEN Throw(op, "Invalid invitation token")
  ELSE
    LET i == CHOOSE k \in InvitationsByToken(inviteToken) :
               \A j \in InvitationsByToken(inviteToken) : k <= j
        invitation == orgInvitations[i]
    IN
    IF invitation.status # "pending"
      THEN Throw(op, "Invitation is no longer valid")
    ELSE IF Expired(invitation) THEN
      /\ orgInvitations' = SetInvitationStatus(i, "expired")
      /\ Reply(op, "Invitation has expired")
      /\ UNCHANGED <<now, inFlight, authVars, organizations, orgMembers,
                     wsVars,
                     msgVars, fileVars>>
    ELSE IF ExistingMembership(invitation.organizationId, user) THEN
      /\ orgInvitations' = SetInvitationStatus(i, "accepted")
      /\ Reply(op, "You are already a member of this organization")
      /\ UNCHANGED <<now, inFlight, authVars, organizations, orgMembers,
                     wsVars,
                     msgVars, fileVars>>
    ELSE
      /\ orgMembers' = Append(orgMembers,
           [organizationId |-> invitation.organizationId, userId |-> user,
            role |-> invitation.role,
            canCreateWorkspaces |-> invitation.canCreateWorkspaces,
            canInviteMembers |-> invitation.canInviteMembers,
            canManageBilling |-> FALSE, status |-> "active"])
      /\ orgInvitations' = SetInvitationStatus(i, "accepted")
      /\ Reply(op, "ok")
      /\ UNCHANGED <<now, inFlight, authVars, organizations, wsVars, msgVars,
                     fileVars>>

acceptOrganizationInvitation(inviteToken, token) ==
  LET user == getCurrentUserFromToken(token)
      op == "acceptOrganizationInvitation"
  IN
  IF user = NoUser THEN Throw(op, "Not authenticated")
  ELSE IF InvitationsByToken(inviteToken) = {}
    THEN Throw(op, "Invalid invitation token")
  ELSE
    LET i == CHOOSE k \in InvitationsByToken(inviteToken) :
               \A j \in InvitationsByToken(inviteToken) : k <= j
        invitation == orgInvitations[i]
    IN
    IF invitation.status # "pending"
      THEN Throw(op, "Invitation is no longer valid")
    ELSE IF Expired(invitation) THEN
      /\ orgInvitations' = SetInvitationStatus(i, "expired")
      /\ Reply(op, "Invitation has expired")
      /\ UNCHANGED <<now, inFlight, authVars, organizations, orgMembers,
                     wsVars,
                     msgVars, fileVars>>
    ELSE IF UserById(user).email # invitation.email
      THEN Throw(op,
             "This invitation was sent to a different email address")
    ELSE IF ExistingMembership(invitation.organizationId, user) THEN
      /\ orgInvitations' = SetInvitationStatus(i, "accepted")
      /\ Reply(op, "You are already a member of this organization")
      /\ UNCHANGED <<now, inFlight, authVars, organizations, orgMembers,
                     wsVars,
                     msgVars, fileVars>>
    ELSE
      /\ orgMembers' = Append(orgMembers,
           [organizationId |-> invitation.organizationId, userId |-> user,
            role |-> invitation.role,
            canCreateWorkspaces |-> invitation.canCreateWorkspaces,
            canInviteMembers |-> invitation.canInviteMembers,
            canManageBilling |-> FALSE, status |-> "active"])
      /\ orgInvitations' = SetInvitationStatus(i, "accepted")
      /\ Reply(op, "ok")
      /\ UNCHANGED <<now, inFlight, authVars, organizations, wsVars, msgVars,
                     fileVars>>

declineOrganizationInvitation(inviteToken, token) ==
  LET user == getCurrentUserFromToken(token)
      op == "declineOrganizationInvitation"
  IN
  IF user = NoUser THEN Throw(op, "Not authenticated")
  ELSE IF InvitationsByToken(inviteToken) = {}
    THEN Throw(op, "Invalid invitation token")
  ELSE
    LET i == CHOOSE k \in InvitationsByToken(inviteToken) :
               \A j \in InvitationsByToken(inviteToken) : k <= j
    IN
    IF orgInvitations[i].status # "pending"
      THEN Throw(op, "Invitation is no longer valid")
    ELSE
      /\ orgInvitations' = SetInvitationStatus(i, "declined")
      /\ Reply(op, "ok")
      /\ UNCHANGED <<now, inFlight, authVars, organizations, orgMembers,
                     wsVars,
                     msgVars, fileVars>>

revokeOrganizationInvitation(invitationId, token) ==
  LET user == getCurrentUserFromToken(token)
      op == "revokeOrganizationInvitation"
  IN
  IF user = NoUser THEN Throw(op, "Not authenticated")
  ELSE IF invitationId \notin 1..Len(orgInvitations)
    THEN Throw(op, "Invitation not found")
  ELSE
    LET invitation == orgInvitations[invitationId] IN
    IF ~( \/ invitation.invitedBy = user
          \/ /\ HasOrgMembership(invitation.organizationId, user)
             /\ IsOwnerOrAdmin(
                  OrgMembership(invitation.organizationId, user)) )
      THEN Throw(op, "Not authorized to revoke invitation")
    ELSE
      /\ orgInvitations' = SetInvitationStatus(invitationId, "revoked")
      /\ Reply(op, "ok")
      /\ UNCHANGED <<now, inFlight, authVars, organizations, orgMembers,
                     wsVars,
                     msgVars, fileVars>>

\* utils cleanupExpiredInvitations: by_expires q.lt('expiresAt', now),
\* filtered on status pending, each patched to expired
ExpiredInvitations ==
  {i \in 1..Len(orgInvitations) :
     /\ orgInvitations[i].expiresAt < now
     /\ orgInvitations[i].status = "pending"}

cleanupExpiredInvitations ==
  /\ orgInvitations' =
       [i \in 1..Len(orgInvitations) |->
          IF i \in ExpiredInvitations
            THEN [orgInvitations[i] EXCEPT !.status = "expired"]
            ELSE orgInvitations[i]]
  /\ Return("cleanupExpiredInvitations",
            [count |-> Cardinality(ExpiredInvitations)])
  /\ UNCHANGED <<now, inFlight, authVars, organizations, orgMembers, wsVars,
                 msgVars,
                 fileVars>>

(***************************************************************************)
(* convex/utils.ts and convex/members.ts: workspace members                *)
(***************************************************************************)
\* workspaceMembers .withIndex('by_workspace_user', ...), as positions
WsMemberRows(workspaceId, userId) ==
  {i \in 1..Len(wsMembers) :
     /\ wsMembers[i].workspaceId = workspaceId
     /\ wsMembers[i].userId = userId}

checkWorkspaceAccess(userId, workspaceId) ==
  WsMemberRows(workspaceId, userId) # {}

\* ... .first() of that query; asked only when there is a row
getWorkspaceMembership(userId, workspaceId) ==
  wsMembers[CHOOSE i \in WsMemberRows(workspaceId, userId) :
              \A j \in WsMemberRows(workspaceId, userId) : i <= j]

\* a test that takes every member of the workspace for an admin
isWorkspaceAdminAnyRole(userId, workspaceId) ==
  checkWorkspaceAccess(userId, workspaceId)

\* membership && membership.role === 'admin'
isWorkspaceAdmin(userId, workspaceId) ==
  /\ checkWorkspaceAccess(userId, workspaceId)
  /\ getWorkspaceMembership(userId, workspaceId).role = "admin"

addToWorkspace(workspaceId, userId, role, token) ==
  LET user == getCurrentUserFromToken(token)
      op == "addToWorkspace"
  IN
  IF user = NoUser THEN Throw(op, "Not authenticated")
  ELSE IF workspaceId \notin ExistingWorkspaces
    THEN Throw(op, "Workspace not found")
  ELSE IF ~isWorkspaceAdmin(user, workspaceId)
    THEN Throw(op, "Only workspace admins can add members")
  ELSE IF \/ ~HasOrgMembership(workspaces[workspaceId].organizationId, userId)
          \/ OrgMembership(workspaces[workspaceId].organizationId,
                           userId).status # "active"
    THEN Throw(op, "User must be organization member first")
  ELSE IF checkWorkspaceAccess(userId, workspaceId)
    THEN Throw(op, "User is already a workspace member")
  ELSE
    /\ wsMembers' = Append(wsMembers,
         [workspaceId |-> workspaceId, userId |-> userId,
          organizationId |-> workspaces[workspaceId].organizationId,
          role |-> role])
    /\ Reply(op, "ok")
    /\ UNCHANGED <<now, inFlight, authVars, orgVars, workspaces,
                   wsInvitations,
                   msgVars, fileVars>>

\* position of the row .first() returns; asked only when there is a row
FirstWsMemberRow(workspaceId, userId) ==
  CHOOSE i \in WsMemberRows(workspaceId, userId) :
    \A j \in WsMemberRows(workspaceId, userId) : i <= j

updateWorkspaceMemberRole(workspaceId, memberId, role, token) ==
  LET user == getCurrentUserFromToken(token)
      op == "updateWorkspaceMemberRole"
  IN
  IF user = NoUser THEN Throw(op, "Not authenticated")
  ELSE IF \/ ~checkWorkspaceAccess(user, workspaceId)
          \/ getWorkspaceMembership(user, workspaceId).role # "admin"
    THEN Throw(op, "Only workspace admins can update roles")
  ELSE IF ~checkWorkspaceAccess(memberId, workspaceId)
    THEN Throw(op, "Member not found")
  ELSE
    /\ wsMembers' =
         [wsMembers EXCEPT
            ![FirstWsMemberRow(workspaceId, memberId)].role = role]
    /\ Reply(op, "ok")
    /\ UNCHANGED <<now, inFlight, authVars, orgVars, workspaces,
                   wsInvitations,
                   msgVars, fileVars>>

\* workspaceMembers by_workspace filtered on role admin, as positions
AdminRows(workspaceId) ==
  {i \in 1..Len(wsMembers) :
     /\ wsMembers[i].workspaceId = workspaceId
     /\ wsMembers[i].role = "admin"}

\* a last-admin test that lets the last admin go
LastAdminNever(workspaceId) == FALSE

\* adminCount.length <= 1
LastAdmin(workspaceId) == Cardinality(AdminRows(workspaceId)) <= 1

removeFromWorkspace(workspaceId, memberId, token) ==
  LET user == getCurrentUserFromToken(token)
      op == "removeFromWorkspace"
  IN
  IF user = NoUser THEN Throw(op, "Not authenticated")
  ELSE IF ~checkWorkspaceAccess(memberId, workspaceId)
    THEN Throw(op, "Member not found")
  ELSE IF /\ memberId # user
          /\ ~( /\ checkWorkspaceAccess(user, workspaceId)
                /\ getWorkspaceMembership(user, workspaceId).role = "admin" )
    THEN Throw(op, "Not authorized")
  ELSE IF /\ getWorkspaceMembership(memberId, workspaceId).role = "admin"
          /\ LastAdmin(workspaceId)
    THEN Throw(op, "Cannot remove the last workspace admin")
  ELSE
    /\ wsMembers' =
         RemoveAt(wsMembers, FirstWsMemberRow(workspaceId, memberId))
    /\ Reply(op, "ok")
    /\ UNCHANGED <<now, inFlight, authVars, orgVars, workspaces,
                   wsInvitations,
                   msgVars, fileVars>>

(***************************************************************************)
(* convex/invitations.ts: workspace invitations.  Rows are                 *)
(* [workspaceId, organizationId, userId, role, invitedBy, status].         *)
(***************************************************************************)
\* workspaceInvitations by_workspace, filtered on userId and status pending
PendingWsInvitations(workspaceId, userId) ==
  {i \in 1..Len(wsInvitations) :
     /\ wsInvitations[i].workspaceId = workspaceId
     /\ wsInvitations[i].userId = userId
     /\ wsInvitations[i].status = "pending"}

createWorkspaceInvitation(workspaceId, userId, role, token) ==
  LET user == getCurrentUserFromToken(token)
      op == "createWorkspaceInvitation"
  IN
  IF user = NoUser THEN Throw(op, "Not authenticated")
  ELSE IF workspaceId \notin ExistingWorkspaces
    THEN Throw(op, "Workspace not found")
  ELSE IF \/ ~checkWorkspaceAccess(user, workspaceId)
          \/ getWorkspaceMembership(user, workspaceId).role # "admin"
    THEN Throw(op, "Only workspace admins can send invitations")
  ELSE IF \/ ~HasOrgMembership(workspaces[workspaceId].organizationId, userId)
          \/ OrgMembership(workspaces[workspaceId].organizationId,
                           userId).status # "active"
    THEN Throw(op, "User must be organization member first")
  ELSE IF checkWorkspaceAccess(userId, workspaceId)
    THEN Throw(op, "User is already a workspace member")
  ELSE IF PendingWsInvitations(workspaceId, userId) # {}
    THEN Throw(op, "Invitation already sent")
  ELSE
    /\ Len(wsInvitations) < MaxWsInvitations
    /\ wsInvitations' = Append(wsInvitations,
         [workspaceId |-> workspaceId,
          organizationId |-> workspaces[workspaceId].organizationId,
          userId |-> userId, role |-> role, invitedBy |-> user,
          status |-> "pending"])
    /\ Return(op, [invitation |-> Len(wsInvitations) + 1])
    /\ UNCHANGED <<now, inFlight, authVars, orgVars, workspaces, wsMembers,
                   msgVars,
                   fileVars>>

acceptWorkspaceInvitation(invitationId, token) ==
  LET user == getCurrentUserFromToken(token)
      op == "acceptWorkspaceInvitation"
  IN
  IF user = NoUser THEN Throw(op, "Not authenticated")
  ELSE IF invitationId \notin 1..Len(wsInvitations)
    THEN Throw(op, "Invitation not found")
  ELSE LET invitation == wsInvitations[invitationId] IN
    IF invitation.userId # user
      THEN Throw(op, "This invitation is not for you")
    ELSE IF invitation.status # "pending"
      THEN Throw(op, "Invitation is no longer valid")
    ELSE IF checkWorkspaceAccess(user, invitation.workspaceId) THEN
      /\ wsInvitations' =
           [wsInvitations EXCEPT ![invitationId].status = "accepted"]
      /\ Reply(op, "You are already a member of this workspace")
      /\ UNCHANGED <<now, inFlight, authVars, orgVars, workspaces, wsMembers,
                     msgVars,
                     fileVars>>
    ELSE
      /\ wsMembers' = Append(wsMembers,
           [workspaceId |-> invitation.workspaceId, userId |-> user,
            organizationId |-> invitation.organizationId,
            role |-> invitation.role])
      /\ wsInvitations' =
           [wsInvitations EXCEPT ![invitationId].status = "accepted"]
      /\ Return(op, [workspaceId |-> invitation.workspaceId])
      /\ UNCHANGED <<now, inFlight, authVars, orgVars, workspaces, msgVars,
                     fileVars>>

(***************************************************************************)
(* convex/workspaces.ts: remove                                            *)
(***************************************************************************)
\* workspaces.ts remove: soft-deletes the messages of the workspace, then
\* deletes its workspaceMembers rows and the workspace row
workspacesRemove(workspaceId, token) ==
  LET user == getCurrentUserFromToken(token)
      op == "workspaces.remove"
      isAdmin ==
        /\ checkWorkspaceAccess(user, workspaceId)
        /\ getWorkspaceMembership(user, workspaceId).role = "admin"
  IN
  IF user = NoUser THEN Throw(op, "Not authenticated")
  ELSE IF workspaceId \notin ExistingWorkspaces
    THEN Throw(op, "Workspace not found")
  ELSE IF /\ ~isAdmin
          /\ ~( /\ HasOrgMembership(workspaces[workspaceId].organizationId,
                                    user)
                /\ IsOwnerOrAdmin(
                     OrgMembership(workspaces[workspaceId].organizationId,
                                   user)) )
    THEN Throw(op, "Not authorized to delete workspace")
  ELSE
    /\ messages' =
         [i \in 1..Len(messages) |->
            IF messages[i].workspaceId = workspaceId
              THEN [messages[i] EXCEPT !.isDeleted = TRUE, !.deletedAt = now,
                                       !.deletedBy = user]
              ELSE messages[i]]
    /\ wsMembers' = SelectSeq(wsMembers,
                              LAMBDA m : m.workspaceId # workspaceId)
    /\ workspaces' = [workspaces EXCEPT ![workspaceId] = [deleted |-> TRUE]]
    /\ Reply(op, "ok")
    /\ UNCHANGED <<now, inFlight, authVars, orgVars, wsInvitations, reactions,
                   messageReads, fileVars>>

(***************************************************************************)
(* convex/messages.ts.  A text is a sequence of characters.                *)
(***************************************************************************)
NoMessage == 0
NoTime == -1

RECURSIVE TrimStart(_)
TrimStart(text) ==
  IF text # <<>> /\ Head(text) = " " THEN TrimStart(Tail(text)) ELSE text

RECURSIVE TrimEnd(_)
TrimEnd(text) ==
  IF text # <<>> /\ text[Len(text)] = " "
    THEN TrimEnd(SubSeq(text, 1, Len(text) - 1))
    ELSE text

\* String.prototype.trim
Trim(text) == TrimEnd(TrimStart(text))

\* a send that takes a parent message of any workspace
sendAnyWorkspace(text, workspaceId, parentMessageId, token) ==
  LET user == getCurrentUserFromToken(token)
      op == "messages.send"
      messageId == Len(messages) + 1
      inserted == Append(messages,
        [text |-> Trim(text),
         organizationId |-> workspaces[workspaceId].organizationId,
         workspaceId |-> workspaceId, userId |-> user,
         parentMessageId |-> parentMessageId, isPinned |-> FALSE,
         isEdited |-> FALSE, editedAt |-> NoTime, threadCount |-> 0,
         isDeleted |-> FALSE, deletedBy |-> NoUser, deletedAt |-> NoTime,
         creationTime |-> now])
  IN
  IF user = NoUser THEN Throw(op, "Not authenticated")
  ELSE IF workspaceId \notin ExistingWorkspaces
    THEN Throw(op, "Workspace not found")
  ELSE IF ~checkWorkspaceAccess(user, workspaceId)
    THEN Throw(op, "No access to workspace")
  ELSE IF /\ parentMessageId # NoMessage
          /\ parentMessageId \notin 1..Len(messages)
    THEN Throw(op, "Invalid parent message")
  ELSE
    /\ IF parentMessageId = NoMessage
         THEN Cardinality({i \in 1..Len(messages) :
                messages[i].parentMessageId = NoMessage}) < MaxMessages
         ELSE Cardinality({i \in 1..Len(messages) :
                messages[i].parentMessageId # NoMessage}) < MaxReplies
    /\ messages' =
         IF parentMessageId # NoMessage
           THEN [inserted EXCEPT ![parentMessageId].threadCount = @ + 1]
           ELSE inserted
    /\ Return(op, [message |-> messageId])
    /\ UNCHANGED <<now, inFlight, authVars, orgVars, wsVars, reactions,
                   messageReads,
                   fileVars>>

send(text, workspaceId, parentMessageId, token) ==
  LET user == getCurrentUserFromToken(token)
      op == "messages.send"
      messageId == Len(messages) + 1
      inserted == Append(messages,
        [text |-> Trim(text),
         organizationId |-> workspaces[workspaceId].organizationId,
         workspaceId |-> workspaceId, userId |-> user,
         parentMessageId |-> parentMessageId, isPinned |-> FALSE,
         isEdited |-> FALSE, editedAt |-> NoTime, threadCount |-> 0,
         isDeleted |-> FALSE, deletedBy |-> NoUser, deletedAt |-> NoTime,
         creationTime |-> now])
  IN
  IF user = NoUser THEN Throw(op, "Not authenticated")
  ELSE IF workspaceId \notin ExistingWorkspaces
    THEN Throw(op, "Workspace not found")
  ELSE IF ~checkWorkspaceAccess(user, workspaceId)
    THEN Throw(op, "No access to workspace")
  ELSE IF /\ parentMessageId # NoMessage
          /\ \/ parentMessageId \notin 1..Len(messages)
             \/ messages[parentMessageId].workspaceId # workspaceId
    THEN Throw(op, "Invalid parent message")
  ELSE
    /\ IF parentMessageId = NoMessage
         THEN Cardinality({i \in 1..Len(messages) :
                messages[i].parentMessageId = NoMessage}) < MaxMessages
         ELSE Cardinality({i \in 1..Len(messages) :
                messages[i].parentMessageId # NoMessage}) < MaxReplies
    /\ messages' =
         IF parentMessageId # NoMessage
           THEN [inserted EXCEPT ![parentMessageId].threadCount = @ + 1]
           ELSE inserted
    /\ Return(op, [message |-> messageId])
    /\ UNCHANGED <<now, inFlight, authVars, orgVars, wsVars, reactions,
                   messageReads,
                   fileVars>>

\* send up to its insert, as the call of one client: the checks and the
\* insert of lines 59-118.  A reply then goes on to the two awaits that
\* count it on its parent.
sendInsert(client, text, workspaceId, parentMessageId, token) ==
  LET user == getCurrentUserFromToken(token)
      op == "messages.send"
      messageId == Len(messages) + 1
  IN
  /\ inFlight[client] = Idle
  /\ IF user = NoUser THEN Throw(op, "Not authenticated")
     ELSE IF workspaceId \notin ExistingWorkspaces
       THEN Throw(op, "Workspace not found")
     ELSE IF ~checkWorkspaceAccess(user, workspaceId)
       THEN Throw(op, "No access to workspace")
     ELSE IF /\ parentMessageId # NoMessage
             /\ \/ parentMessageId \notin 1..Len(messages)
                \/ messages[parentMessageId].workspaceId # workspaceId
       THEN Throw(op, "Invalid parent message")
     ELSE
       /\ IF parentMessageId = NoMessage
            THEN Cardinality({i \in 1..Len(messages) :
                   messages[i].parentMessageId = NoMessage}) < MaxMessages
            ELSE Cardinality({i \in 1..Len(messages) :
                   messages[i].parentMessageId # NoMessage}) < MaxReplies + 1
       /\ messages' = Append(messages,
            [text |-> Trim(text),
             organizationId |-> workspaces[workspaceId].organizationId,
             workspaceId |-> workspaceId, userId |-> user,
             parentMessageId |-> parentMessageId, isPinned |-> FALSE,
             isEdited |-> FALSE, editedAt |-> NoTime, threadCount |-> 0,
             isDeleted |-> FALSE, deletedBy |-> NoUser, deletedAt |-> NoTime,
             creationTime |-> now])
       /\ IF parentMessageId = NoMessage
            THEN /\ Return(op, [message |-> messageId])
                 /\ UNCHANGED inFlight
            ELSE /\ inFlight' = [inFlight EXCEPT ![client] =
                      [op |-> op, await |-> "get", message |-> messageId,
                       parentMessageId |-> parentMessageId]]
                 /\ UNCHANGED last
       /\ UNCHANGED <<now, authVars, orgVars, wsVars, reactions, messageReads,
                      fileVars>>

\* const parentMessage = await ctx.db.get(args.parentMessageId): the call
\* keeps the threadCount it has read
sendGetParent(client) ==
  /\ inFlight[client] # Idle
  /\ inFlight[client].op = "messages.send"
  /\ inFlight[client].await = "get"
  /\ inFlight' = [inFlight EXCEPT ![client] =
       [op |-> "messages.send", await |-> "patch",
        message |-> inFlight[client].message,
        parentMessageId |-> inFlight[client].parentMessageId,
        threadCount |-> messages[inFlight[client].parentMessageId].threadCount]]
  /\ UNCHANGED <<now, authVars, orgVars, wsVars, msgVars, fileVars, last>>

\* a patch that counts the reply on the threadCount the row holds now
sendPatchParentAtomic(client) ==
  /\ inFlight[client] # Idle
  /\ inFlight[client].op = "messages.send"
  /\ inFlight[client].await = "patch"
  /\ messages' = [messages EXCEPT
       ![inFlight[client].parentMessageId].threadCount = @ + 1]
  /\ inFlight' = [inFlight EXCEPT ![client] = Idle]
  /\ Return("messages.send", [message |-> inFlight[client].message])
  /\ UNCHANGED <<now, authVars, orgVars, wsVars, reactions, messageReads,
                 fileVars>>

\* await ctx.db.patch(args.parentMessageId, { threadCount:
\* (parentMessage.threadCount || 0) + 1 }), and the return of the call
sendPatchParent(client) ==
  /\ inFlight[client] # Idle
  /\ inFlight[client].op = "messages.send"
  /\ inFlight[client].await = "patch"
  /\ messages' = [messages EXCEPT
       ![inFlight[client].parentMessageId].threadCount =
         inFlight[client].threadCount + 1]
  /\ inFlight' = [inFlight EXCEPT ![client] = Idle]
  /\ Return("messages.send", [message |-> inFlight[client].message])
  /\ UNCHANGED <<now, authVars, orgVars, wsVars, reactions, messageReads,
                 fileVars>>

\* an edit window that closes one second early
PastEditWindowInclusive(message) == now - message.creationTime >= EditWindow

\* Date.now() - message._creationTime > fifteenMinutes
PastEditWindow(message) == now - message.creationTime > EditWindow

edit(messageId, text, token) ==
  LET user == getCurrentUserFromToken(token)
      op == "messages.edit"
  IN
  IF user = NoUser THEN Throw(op, "Not authenticated")
  ELSE IF messageId \notin 1..Len(messages)
    THEN Throw(op, "Message not found")
  ELSE IF messages[messageId].userId # user
    THEN Throw(op, "Can only edit your own messages")
  ELSE IF PastEditWindow(messages[messageId])
    THEN Throw(op, "Can only edit messages within 15 minutes")
  ELSE
    /\ messages' = [messages EXCEPT ![messageId] =
         [@ EXCEPT !.text = Trim(text), !.isEdited = TRUE, !.editedAt = now]]
    /\ Return(op, [message |-> messageId])
    /\ UNCHANGED <<now, inFlight, authVars, orgVars, wsVars, reactions,
                   messageReads,
                   fileVars>>

\* a remove that takes the removed reply out of its parent's threadCount
removeCountsDown(messageId, token) ==
  LET user == getCurrentUserFromToken(token)
      op == "messages.remove"
  IN
  IF user = NoUser THEN Throw(op, "Not authenticated")
  ELSE IF messageId \notin 1..Len(messages)
    THEN Throw(op, "Message not found")
  ELSE IF /\ messages[messageId].userId # user
          /\ ~isWorkspaceAdmin(user, messages[messageId].workspaceId)
    THEN Throw(op, "Not authorized to delete message")
  ELSE
    /\ messages' =
         LET patched == [messages EXCEPT ![messageId] =
               [@ EXCEPT !.isDeleted = TRUE, !.deletedAt = now,
                         !.deletedBy = user]]
             parent == messages[messageId].parentMessageId
         IN IF parent # NoMessage
              THEN [patched EXCEPT ![parent].threadCount = @ - 1]
              ELSE patched
    /\ Reply(op, "ok")
    /\ UNCHANGED <<now, inFlight, authVars, orgVars, wsVars, reactions,
                   messageReads,
                   fileVars>>

remove(messageId, token) ==
  LET user == getCurrentUserFromToken(token)
      op == "messages.remove"
  IN
  IF user = NoUser THEN Throw(op, "Not authenticated")
  ELSE IF messageId \notin 1..Len(messages)
    THEN Throw(op, "Message not found")
  ELSE IF /\ messages[messageId].userId # user
          /\ ~isWorkspaceAdmin(user, messages[messageId].workspaceId)
    THEN Throw(op, "Not authorized to delete message")
  ELSE
    /\ messages' = [messages EXCEPT ![messageId] =
         [@ EXCEPT !.isDeleted = TRUE, !.deletedAt = now,
                   !.deletedBy = user]]
    /\ Reply(op, "ok")
    /\ UNCHANGED <<now, inFlight, authVars, orgVars, wsVars, reactions,
                   messageReads,
                   fileVars>>

\* the reactions row of one user, message and emoji
Reaction(messageId, userId, emoji) ==
  [messageId |-> messageId, userId |-> userId,
   organizationId |-> IF messageId \in 1..Len(messages)
                        THEN messages[messageId].organizationId
                        ELSE 0,
   emoji |-> emoji]

\* a test for an existing reaction that never finds one
ExistingReactionNever(messageId, userId, emoji) == FALSE

\* reactions by_user_message, filtered on emoji, .first() is not null
ExistingReaction(messageId, userId, emoji) ==
  \E r \in BagToSet(reactions) :
    r.messageId = messageId /\ r.userId = userId /\ r.emoji = emoji

addReaction(messageId, emoji, token) ==
  LET user == getCurrentUserFromToken(token)
      op == "addReaction"
  IN
  IF user = NoUser THEN Throw(op, "Not authenticated")
  ELSE IF messageId \notin 1..Len(messages)
    THEN Throw(op, "Message not found")
  ELSE IF ~checkWorkspaceAccess(user, messages[messageId].workspaceId)
    THEN Throw(op, "No access to workspace")
  ELSE IF ExistingReaction(messageId, user, emoji)
    THEN Throw(op, "You already reacted with this emoji")
  ELSE
    /\ reactions' = reactions (+) SetToBag({Reaction(messageId, user, emoji)})
    /\ Return(op, [messageId |-> messageId, userId |-> user,
                   emoji |-> emoji])
    /\ UNCHANGED <<now, inFlight, authVars, orgVars, wsVars, messages,
                   messageReads,
                   fileVars>>

removeReaction(messageId, emoji, token) ==
  LET user == getCurrentUserFromToken(token)
      op == "removeReaction"
  IN
  IF user = NoUser THEN Throw(op, "Not authenticated")
  ELSE IF ~ExistingReaction(messageId, user, emoji)
    THEN Throw(op, "Reaction not found")
  ELSE
    /\ reactions' = reactions (-)
         SetToBag({CHOOSE r \in BagToSet(reactions) :
                     /\ r.messageId = messageId
                     /\ r.userId = user
                     /\ r.emoji = emoji})
    /\ Return(op, [messageId |-> messageId, userId |-> user,
                   emoji |-> emoji])
    /\ UNCHANGED <<now, inFlight, authVars, orgVars, wsVars, messages,
                   messageReads,
                   fileVars>>

\* a filter on isDeleted that lets every row through
NotDeletedAny(message) == TRUE

\* .filter((q) => q.eq(q.field('isDeleted'), false))
NotDeleted(message) == message.isDeleted = FALSE

\* messages by_workspace, not deleted, as _ids
WorkspaceMessages(workspaceId) ==
  {i \in 1..Len(messages) :
     /\ messages[i].workspaceId = workspaceId
     /\ NotDeleted(messages[i])}

\* the query returns the rows; the response keeps their _ids
get(workspaceId, token) ==
  LET user == getCurrentUserFromToken(token)
      op == "messages.get"
  IN
  IF user = NoUser THEN Throw(op, "Not authenticated")
  ELSE IF ~checkWorkspaceAccess(user, workspaceId)
    THEN Throw(op, "No access to workspace")
  ELSE
    /\ Return(op, [workspaceId |-> workspaceId,
                   messages |-> WorkspaceMessages(workspaceId)])
    /\ UNCHANGED <<now, authVars, dataVars>>

pin(messageId, token) ==
  LET user == getCurrentUserFromToken(token)
      op == "messages.pin"
  IN
  IF user = NoUser THEN Throw(op, "Not authenticated")
  ELSE IF messageId \notin 1..Len(messages)
    THEN Throw(op, "Message not found")
  ELSE IF ~isWorkspaceAdmin(user, messages[messageId].workspaceId)
    THEN Throw(op, "Only workspace admins can pin messages")
  ELSE
    /\ messages' = [messages EXCEPT ![messageId].isPinned = TRUE]
    /\ Reply(op, "ok")
    /\ UNCHANGED <<now, inFlight, authVars, orgVars, wsVars, reactions,
                   messageReads,
                   fileVars>>

unpin(messageId, token) ==
  LET user == getCurrentUserFromToken(token)
      op == "messages.unpin"
  IN
  IF user = NoUser THEN Throw(op, "Not authenticated")
  ELSE IF messageId \notin 1..Len(messages)
    THEN Throw(op, "Message not found")
  ELSE IF ~isWorkspaceAdmin(user, messages[messageId].workspaceId)
    THEN Throw(op, "Only workspace admins can unpin messages")
  ELSE
    /\ messages' = [messages EXCEPT ![messageId].isPinned = FALSE]
    /\ Reply(op, "ok")
    /\ UNCHANGED <<now, inFlight, authVars, orgVars, wsVars, reactions,
                   messageReads,
                   fileVars>>

\* the messageReads row one user gets for one message at this instant
MessageRead(messageId, userId) ==
  [messageId |-> messageId, userId |-> userId,
   organizationId |-> messages[messageId].organizationId, readAt |-> now]

\* messageReads by_user_message .first() is not null
ExistingRead(messageId, userId) ==
  \E r \in messageReads : r.userId = userId /\ r.messageId = messageId

markAsRead(messageId, token) ==
  LET user == getCurrentUserFromToken(token)
      op == "markAsRead"
  IN
  IF user = NoUser THEN Throw(op, "Not authenticated")
  ELSE IF messageId \notin 1..Len(messages)
    THEN Throw(op, "Message not found")
  ELSE
    /\ messageReads' =
         IF ExistingRead(messageId, user) THEN messageReads
         ELSE messageReads \cup {MessageRead(messageId, user)}
    /\ Reply(op, "ok")
    /\ UNCHANGED <<now, inFlight, authVars, orgVars, wsVars, messages,
                   reactions,
                   fileVars>>

markWorkspaceAsRead(workspaceId, token) ==
  LET user == getCurrentUserFromToken(token)
      op == "markWorkspaceAsRead"
      readMessageIds == {r.messageId : r \in {q \in messageReads :
                                                q.userId = user}}
  IN
  IF user = NoUser THEN Throw(op, "Not authenticated")
  ELSE IF workspaceId \notin ExistingWorkspaces
    THEN Throw(op, "Workspace not found")
  ELSE IF ~checkWorkspaceAccess(user, workspaceId)
    THEN Throw(op, "No access to workspace")
  ELSE
    /\ messageReads' = messageReads \cup
         {MessageRead(m, user) :
            m \in WorkspaceMessages(workspaceId) \ readMessageIds}
    /\ Reply(op, "ok")
    /\ UNCHANGED <<now, inFlight, authVars, orgVars, wsVars, messages,
                   reactions,
                   fileVars>>

(***************************************************************************)
(* convex/files.ts.  blobs is the content of ctx.storage.                  *)
(***************************************************************************)
NoWorkspace == 0

FILE_RULES ==
  [profile_picture |->
     [maxSize |-> 5 * 1024 * 1024,
      allowedTypes |-> {"image/jpeg", "image/png", "image/webp",
                        "image/gif"}],
   workspace_logo |->
     [maxSize |-> 2 * 1024 * 1024,
      allowedTypes |-> {"image/jpeg", "image/png", "image/webp"}],
   organization_logo |->
     [maxSize |-> 2 * 1024 * 1024,
      allowedTypes |-> {"image/jpeg", "image/png", "image/webp"}],
   chat_attachment |-> [maxSize |-> 100 * 1024 * 1024, allowedTypes |-> {}],
   document |->
     [maxSize |-> 50 * 1024 * 1024,
      allowedTypes |-> {"application/pdf", "text/plain", "text/csv",
                        "image/jpeg", "image/png"}]]

checkOrganizationAccess(userId, organizationId) ==
  /\ HasOrgMembership(organizationId, userId)
  /\ OrgMembership(organizationId, userId).status = "active"

\* generateUploadUrl, and the upload of one file through the URL it returns
generateUploadUrl(context, fileType, fileSize, organizationId, workspaceId, token) ==
  LET user == getCurrentUserFromToken(token)
      op == "generateUploadUrl"
      rules == FILE_RULES[context]
  IN
  IF user = NoUser THEN Throw(op, "Not authenticated")
  ELSE IF ~checkOrganizationAccess(user, organizationId)
    THEN Throw(op, "No access to organization")
  ELSE IF fileSize > rules.maxSize THEN Throw(op, "File too large")
  ELSE IF rules.allowedTypes # {} /\ fileType \notin rules.allowedTypes
    THEN Throw(op, "Invalid file type")
  ELSE IF /\ workspaceId # NoWorkspace
          /\ ~checkWorkspaceAccess(user, workspaceId)
    THEN Throw(op, "No access to workspace")
  ELSE
    /\ nextBlob <= MaxBlobs
    /\ blobs' = blobs \cup {nextBlob}
    /\ nextBlob' = nextBlob + 1
    /\ Return(op, [storageId |-> nextBlob])
    /\ UNCHANGED <<now, inFlight, authVars, orgVars, wsVars, msgVars, files,
                   nextFile>>

\* the positions of the rows a single-slot context replaces: the rows the
\* query of the context's case selects
OldFiles(context, organizationId, workspaceId, userId) ==
  {i \in 1..Len(files) :
     /\ files[i].context = context
     /\ CASE context = "profile_picture" ->
               /\ files[i].organizationId = organizationId
               /\ files[i].uploadedBy = userId
          [] context = "workspace_logo" ->
               /\ workspaceId # NoWorkspace
               /\ files[i].workspaceId = workspaceId
          [] context = "organization_logo" ->
               files[i].organizationId = organizationId
          [] OTHER -> FALSE}

\* a replacement that leaves the blob of the old file in the store
StorageDeleteSkipped(storageId) == blobs

\* ctx.storage.delete(storageId)
StorageDelete(storageId) == blobs \ {storageId}

storeFileMetadata(storageId, context, organizationId, workspaceId, token) ==
  LET user == getCurrentUserFromToken(token)
      op == "storeFileMetadata"
      old == OldFiles(context, organizationId, workspaceId, user)
      first == CHOOSE i \in old : \A j \in old : i <= j
      kept == IF old = {} THEN files ELSE RemoveAt(files, first)
      accessLevel ==
        IF \/ context = "workspace_logo"
           \/ /\ context \in {"chat_attachment", "document"}
              /\ workspaceId # NoWorkspace
          THEN "workspace"
          ELSE "organization"
  IN
  IF user = NoUser THEN Throw(op, "Not authenticated")
  ELSE IF ~checkOrganizationAccess(user, organizationId)
    THEN Throw(op, "No access to organization")
  ELSE
    \* ctx.storage.delete of a storage id the store does not hold may be
    \* refused; the handler then stops before its first write
    \/ /\ old # {}
       /\ files[first].storageId \notin blobs
       /\ Throw(op, "storage.delete failed")
    \/ /\ nextFile <= MaxFiles
       /\ blobs' = IF old = {} THEN blobs
                   ELSE StorageDelete(files[first].storageId)
       /\ files' = Append(kept,
            [id |-> nextFile, storageId |-> storageId,
             organizationId |-> organizationId, workspaceId |-> workspaceId,
             context |-> context, uploadedBy |-> user,
             accessLevel |-> accessLevel, isDeleted |-> FALSE])
       /\ nextFile' = nextFile + 1
       /\ Return(op, [file |-> nextFile])
       /\ UNCHANGED <<now, inFlight, authVars, orgVars, wsVars, msgVars,
                      nextBlob>>

\* ctx.db.get(fileId), as positions
FilesById(fileId) == {i \in 1..Len(files) : files[i].id = fileId}

\* storeFileMetadata up to the query of its context's case, as the call of
\* one client: the call keeps the old row it has found, or none
storeFindOld(client, storageId, context, organizationId, workspaceId, token) ==
  LET user == getCurrentUserFromToken(token)
      op == "storeFileMetadata"
      old == OldFiles(context, organizationId, workspaceId, user)
      first == CHOOSE i \in old : \A j \in old : i <= j
  IN
  /\ inFlight[client] = Idle
  /\ IF user = NoUser THEN Throw(op, "Not authenticated")
     ELSE IF ~checkOrganizationAccess(user, organizationId)
       THEN Throw(op, "No access to organization")
     ELSE
       /\ inFlight' = [inFlight EXCEPT ![client] =
            [op |-> op,
             await |-> IF old = {} THEN "insert" ELSE "storage.delete",
             old |-> IF old = {} THEN 0 ELSE files[first].id,
             oldStorageId |-> IF old = {} THEN 0 ELSE files[first].storageId,
             storageId |-> storageId, context |-> context,
             organizationId |-> organizationId, workspaceId |-> workspaceId,
             user |-> user]]
       /\ UNCHANGED <<now, authVars, orgVars, wsVars, msgVars, fileVars,
                      last>>

\* await ctx.storage.delete(old.storageId), then await ctx.db.delete(old._id).
\* Either delete may be refused when its target is already gone; the call
\* then ends there.
storeDeleteOld(client) ==
  LET call == inFlight[client]
      row == FilesById(call.old)
  IN
  /\ call # Idle
  /\ call.op = "storeFileMetadata"
  /\ \/ /\ call.await = "storage.delete"
        /\ \/ /\ blobs' = StorageDelete(call.oldStorageId)
              /\ inFlight' = [inFlight EXCEPT ![client].await = "db.delete"]
              /\ UNCHANGED last
           \/ /\ call.oldStorageId \notin blobs
              /\ inFlight' = [inFlight EXCEPT ![client] = Idle]
              /\ Reply(call.op, "storage.delete failed")
              /\ UNCHANGED blobs
        /\ UNCHANGED files
     \/ /\ call.await = "db.delete"
        /\ \/ /\ files' = IF row = {} THEN files
                          ELSE RemoveAt(files, CHOOSE i \in row : TRUE)
              /\ inFlight' = [inFlight EXCEPT ![client].await = "insert"]
              /\ UNCHANGED last
           \/ /\ row = {}
              /\ inFlight' = [inFlight EXCEPT ![client] = Idle]
              /\ Reply(call.op, "db.delete failed")
              /\ UNCHANGED files
        /\ UNCHANGED blobs
  /\ UNCHANGED <<now, authVars, orgVars, wsVars, msgVars, nextFile, nextBlob>>

\* an insert that first clears the slot of the rows it holds now
storeInsertReplacing(client) ==
  LET call == inFlight[client]
      accessLevel ==
        IF \/ call.context = "workspace_logo"
           \/ /\ call.context \in {"chat_attachment", "document"}
              /\ call.workspaceId # NoWorkspace
          THEN "workspace"
          ELSE "organization"
      old == OldFiles(call.context, call.organizationId, call.workspaceId,
                      call.user)
  IN
  /\ call # Idle
  /\ call.op = "storeFileMetadata"
  /\ call.await = "insert"
  /\ nextFile <= MaxFiles
  /\ files' = Append(SelectSeq(files, LAMBDA f : f.id \notin
                                 {files[i].id : i \in old}),
       [id |-> nextFile, storageId |-> call.storageId,
        organizationId |-> call.organizationId,
        workspaceId |-> call.workspaceId, context |-> call.context,
        uploadedBy |-> call.user, accessLevel |-> accessLevel,
        isDeleted |-> FALSE])
  /\ nextFile' = nextFile + 1
  /\ inFlight' = [inFlight EXCEPT ![client] = Idle]
  /\ Return(call.op, [file |-> nextFile])
  /\ UNCHANGED <<now, authVars, orgVars, wsVars, msgVars, blobs, nextBlob>>

\* await ctx.db.insert('files', ...), and the return of the call
storeInsert(client) ==
  LET call == inFlight[client]
      accessLevel ==
        IF \/ call.context = "workspace_logo"
           \/ /\ call.context \in {"chat_attachment", "document"}
              /\ call.workspaceId # NoWorkspace
          THEN "workspace"
          ELSE "organization"
  IN
  /\ call # Idle
  /\ call.op = "storeFileMetadata"
  /\ call.await = "insert"
  /\ nextFile <= MaxFiles
  /\ files' = Append(files,
       [id |-> nextFile, storageId |-> call.storageId,
        organizationId |-> call.organizationId,
        workspaceId |-> call.workspaceId, context |-> call.context,
        uploadedBy |-> call.user, accessLevel |-> accessLevel,
        isDeleted |-> FALSE])
  /\ nextFile' = nextFile + 1
  /\ inFlight' = [inFlight EXCEPT ![client] = Idle]
  /\ Return(call.op, [file |-> nextFile])
  /\ UNCHANGED <<now, authVars, orgVars, wsVars, msgVars, blobs, nextBlob>>

\* a deleteFile that lets every signed-in caller delete
deleteFileAnyCaller(fileId, token) ==
  LET user == getCurrentUserFromToken(token)
      op == "deleteFile"
      i == CHOOSE k \in FilesById(fileId) : TRUE
  IN
  IF user = NoUser THEN Throw(op, "Not authenticated")
  ELSE IF FilesById(fileId) = {} \/ files[i].isDeleted
    THEN Throw(op, "File not found")
  ELSE
    /\ files' = [files EXCEPT ![i].isDeleted = TRUE]
    /\ blobs' = StorageDelete(files[i].storageId)
    /\ \/ Reply(op, "ok")
       \/ /\ files[i].storageId \notin blobs
          /\ Reply(op, "storage.delete failed")
    /\ UNCHANGED <<now, inFlight, authVars, orgVars, wsVars, msgVars,
                   nextFile,
                   nextBlob>>

deleteFile(fileId, token) ==
  LET user == getCurrentUserFromToken(token)
      op == "deleteFile"
      i == CHOOSE k \in FilesById(fileId) : TRUE
  IN
  IF user = NoUser THEN Throw(op, "Not authenticated")
  ELSE IF FilesById(fileId) = {} \/ files[i].isDeleted
    THEN Throw(op, "File not found")
  ELSE IF /\ files[i].uploadedBy # user
          /\ ~( /\ HasOrgMembership(files[i].organizationId, user)
                /\ IsOwnerOrAdmin(
                     OrgMembership(files[i].organizationId, user)) )
    THEN Throw(op, "Not authorized to delete file")
  ELSE
    /\ files' = [files EXCEPT ![i].isDeleted = TRUE]
    /\ blobs' = StorageDelete(files[i].storageId)
    /\ \/ Reply(op, "ok")
       \/ /\ files[i].storageId \notin blobs
          /\ Reply(op, "storage.delete failed")
    /\ UNCHANGED <<now, inFlight, authVars, orgVars, wsVars, msgVars,
                   nextFile,
                   nextBlob>>

\* the query returns the URL of the blob; the response keeps its storage id
getFileUrl(fileId, token) ==
  LET user == getCurrentUserFromToken(token)
      op == "getFileUrl"
      i == CHOOSE k \in FilesById(fileId) : TRUE
  IN
  IF user = NoUser THEN Throw(op, "Not authenticated")
  ELSE IF FilesById(fileId) = {} \/ files[i].isDeleted
    THEN Throw(op, "File not found")
  ELSE IF /\ files[i].accessLevel = "organization"
          /\ ~checkOrganizationAccess(user, files[i].organizationId)
    THEN Throw(op, "No access to file")
  ELSE IF /\ files[i].accessLevel = "workspace"
          /\ files[i].workspaceId = NoWorkspace
    THEN Throw(op, "Workspace file without workspace ID")
  ELSE IF /\ files[i].accessLevel = "workspace"
          /\ ~checkWorkspaceAccess(user, files[i].workspaceId)
    THEN Throw(op, "No access to workspace file")
  ELSE IF /\ files[i].accessLevel = "private"
          /\ files[i].uploadedBy # user
          /\ ~( /\ HasOrgMembership(files[i].organizationId, user)
                /\ IsOwnerOrAdmin(
                     OrgMembership(files[i].organizationId, user)) )
    THEN Throw(op, "No access to private file")
  ELSE
    /\ Return(op, [file |-> fileId, storageId |-> files[i].storageId])
    /\ UNCHANGED <<now, authVars, dataVars>>

Init ==
  /\ now = 0
  /\ users = {}
  /\ sessions = {}
  /\ otps = [p \in Phones |-> <<>>]
  /\ nextToken = 1
  /\ organizations = <<>>
  /\ orgMembers = <<>>
  /\ orgInvitations = <<>>
  /\ workspaces = <<>>
  /\ wsMembers = <<>>
  /\ messages = <<>>
  /\ reactions = EmptyBag
  /\ messageReads = {}
  /\ wsInvitations = <<>>
  /\ files = <<>>
  /\ blobs = {}
  /\ nextFile = 1
  /\ nextBlob = 1
  /\ inFlight = [c \in Clients |-> Idle]
  /\ last = [op |-> "init", res |-> "ok"]

(***************************************************************************)
(* Sign-in and sessions.                                                   *)
(***************************************************************************)
\* the instants at which the clock is observed: the expiry of an OTP and of
\* a session created at time 0, and one second after each
AuthInstants == {OtpTtl, OtpTtl + 1, SessionTtl, SessionTtl + 1}

\* the two phones that sign in under SpecAuth
AuthPhones == {1, 2}

NextAuth ==
  \/ \E phone \in AuthPhones : generateOTP(phone)
  \/ \E phone \in AuthPhones, code \in Codes : verifyOTP(phone, code)
  \/ \E token \in Tokens : getCurrentUser(token)
  \/ \E token \in Tokens : signOut(token)
  \/ cleanupExpiredSessions
  \/ \E t \in AuthInstants : Tick(t)

SpecAuth == Init /\ [][NextAuth]_vars

(***************************************************************************)
(* The state in which every phone has signed in once at time 0 (each ran   *)
(* generateOTP and then verifyOTP with the code it received, phone 1       *)
(* first): the starting point for the behaviours of signed-in users.       *)
(* The email of a profile is read by members.ts and invitations.ts through *)
(* the by_email index but written by no handler of convex/: it is data of  *)
(* the deployment, and each user starts with or without an address.        *)
(***************************************************************************)
Addresses == <<"a@acme.io", "b@acme.io", "c@acme.io">>

EmailOf(p) == IF p <= Len(Addresses) THEN Addresses[p] ELSE NoEmail

\* the phones that have signed in
SignedIn == {1, 2}

InitSignedIn ==
  /\ now = 0
  /\ \E withEmail \in SUBSET SignedIn :
       users = {[id |-> p, phone |-> p, status |-> "online",
                 email |-> IF p \in withEmail THEN EmailOf(p) ELSE NoEmail] :
                  p \in SignedIn}
  /\ sessions = {[userId |-> p, token |-> p, expiresAt |-> SessionTtl] :
                   p \in SignedIn}
  /\ otps = [p \in Phones |->
               IF p \in SignedIn
                 THEN <<[code |-> 10000, expiresAt |-> OtpTtl,
                         isUsed |-> TRUE]>>
                 ELSE <<>>]
  /\ nextToken = Cardinality(SignedIn) + 1
  /\ organizations = <<>>
  /\ orgMembers = <<>>
  /\ orgInvitations = <<>>
  /\ workspaces = <<>>
  /\ wsMembers = <<>>
  /\ messages = <<>>
  /\ reactions = EmptyBag
  /\ messageReads = {}
  /\ wsInvitations = <<>>
  /\ files = <<>>
  /\ blobs = {}
  /\ nextFile = 1
  /\ nextBlob = 1
  /\ inFlight = [c \in Clients |-> Idle]
  /\ last = [op |-> "init", res |-> "ok"]

\* session tokens a caller presents: the empty one and the token of each
\* signed-in user
CallerTokens == 0..Cardinality(SignedIn)
UserIds == SignedIn
\* organization ids a caller names: the first organization and a missing one
OrgIds == {1, 2}
Slugs == {"acme"}
Emails == {"a@acme.io", "b@acme.io"}
MemberRoles == {"owner", "admin", "member"}
InviteTokens == 1..(MaxInvitations + 1)

(***************************************************************************)
(* Organizations and their members.                                        *)
(***************************************************************************)
NextOrg ==
  \/ \E slug \in Slugs, token \in CallerTokens : organizationsCreate(slug, token)
  \/ \E orgId \in OrgIds, token \in CallerTokens :
       organizationsRemove(orgId, token)
  \/ \E orgId \in OrgIds, email \in Emails, token \in CallerTokens :
       addToOrganization(orgId, email, "member", FALSE, FALSE, token)
  \/ \E orgId \in OrgIds, memberId \in UserIds, role \in MemberRoles,
        token \in CallerTokens :
       updateOrganizationMemberRole(orgId, memberId, role, "unset", "unset",
                                    "unset", token)
  \/ \E orgId \in OrgIds, memberId \in UserIds, token \in CallerTokens :
       removeFromOrganization(orgId, memberId, token)
  \/ \E orgId \in OrgIds, token \in CallerTokens : workspacesCreate(orgId, token)

SpecOrg == InitSignedIn /\ [][NextOrg]_vars

(***************************************************************************)
(* Organization invitations.                                               *)
(***************************************************************************)
\* one second after the expiry of an invitation created at time 0
InvInstants == {InviteTtl + 1}

NextInv ==
  \/ \E slug \in Slugs, token \in CallerTokens : organizationsCreate(slug, token)
  \/ \E orgId \in OrgIds, email \in Emails, token \in CallerTokens :
       createOrganizationInvitation(orgId, email, "member", FALSE, FALSE, token)
  \/ \E orgId \in OrgIds, email \in Emails, token \in CallerTokens :
       addToOrganization(orgId, email, "member", FALSE, FALSE, token)
  \/ \E inviteToken \in InviteTokens, token \in CallerTokens :
       acceptOrganizationInvitation(inviteToken, token)
  \/ \E inviteToken \in InviteTokens, token \in CallerTokens :
       declineOrganizationInvitation(inviteToken, token)
  \/ \E invitationId \in InviteTokens, token \in CallerTokens :
       revokeOrganizationInvitation(invitationId, token)
  \/ \E t \in InvInstants : Tick(t)
  \/ cleanupExpiredInvitations

SpecInv == InitSignedIn /\ [][NextInv]_vars

(***************************************************************************)
(* The state in which user 1 (a@acme.io) has created the organization acme *)
(* and a workspace in it, and has added user 2 (b@acme.io) to the          *)
(* organization as a member: the starting point for messages and files.    *)
(***************************************************************************)
InitWorkspace ==
  /\ now = 0
  /\ users = {[id |-> p, phone |-> p, status |-> "online",
               email |-> EmailOf(p)] : p \in SignedIn}
  /\ sessions = {[userId |-> p, token |-> p, expiresAt |-> SessionTtl] :
                   p \in SignedIn}
  /\ otps = [p \in Phones |->
               IF p \in SignedIn
                 THEN <<[code |-> 10000, expiresAt |-> OtpTtl,
                         isUsed |-> TRUE]>>
                 ELSE <<>>]
  /\ nextToken = Cardinality(SignedIn) + 1
  /\ organizations = <<[slug |-> "acme", createdBy |-> 1, isActive |-> TRUE]>>
  /\ orgMembers =
       <<[organizationId |-> 1, userId |-> 1, role |-> "owner",
          canCreateWorkspaces |-> TRUE, canInviteMembers |-> TRUE,
          canManageBilling |-> TRUE, status |-> "active"],
         [organizationId |-> 1, userId |-> 2, role |-> "member",
          canCreateWorkspaces |-> FALSE, canInviteMembers |-> FALSE,
          canManageBilling |-> FALSE, status |-> "active"]>>
  /\ orgInvitations = <<>>
  /\ workspaces = <<[organizationId |-> 1, createdBy |-> 1,
                     isArchived |-> FALSE]>>
  /\ wsMembers = <<[workspaceId |-> 1, userId |-> 1, organizationId |-> 1,
                    role |-> "admin"]>>
  /\ messages = <<>>
  /\ reactions = EmptyBag
  /\ messageReads = {}
  /\ wsInvitations = <<>>
  /\ files = <<>>
  /\ blobs = {}
  /\ nextFile = 1
  /\ nextBlob = 1
  /\ inFlight = [c \in Clients |-> Idle]
  /\ last = [op |-> "init", res |-> "ok"]

(***************************************************************************)
(* Messages: send, edit, remove.                                           *)
(***************************************************************************)
\* one second before the end of the edit window of a message sent at time
\* 0, its end, and one second after it
MsgInstants == {EditWindow - 1, EditWindow, EditWindow + 1}
WorkspaceIds == {1, 2}
MessageIds == 1..(MaxMessages + 1)
SentTexts == {<<"h", "i">>}
EditedTexts == {<<" ", "y", "o", " ">>}

NextMsg ==
  \/ \E workspaceId \in WorkspaceIds, userId \in UserIds, token \in CallerTokens :
       addToWorkspace(workspaceId, userId, "member", token)
  \/ \E text \in SentTexts, workspaceId \in WorkspaceIds, token \in CallerTokens :
       send(text, workspaceId, NoMessage, token)
  \/ \E messageId \in MessageIds, text \in EditedTexts, token \in CallerTokens :
       edit(messageId, text, token)
  \/ \E messageId \in MessageIds, token \in CallerTokens :
       remove(messageId, token)
  \/ \E t \in MsgInstants : Tick(t)

SpecMsg == InitWorkspace /\ [][NextMsg]_vars

(***************************************************************************)
(* Reactions.                                                              *)
(***************************************************************************)
Emojis == {"+1", "heart"}

SpecReact ==
  InitWorkspace /\
  [][ \/ \E workspaceId \in WorkspaceIds, userId \in UserIds, token \in CallerTokens :
           addToWorkspace(workspaceId, userId, "member", token)
      \/ \E text \in SentTexts, workspaceId \in WorkspaceIds, token \in CallerTokens :
           send(text, workspaceId, NoMessage, token)
      \/ \E messageId \in MessageIds, emoji \in Emojis, token \in CallerTokens :
           addReaction(messageId, emoji, token)
      \/ \E messageId \in MessageIds, emoji \in Emojis, token \in CallerTokens :
           removeReaction(messageId, emoji, token) ]_vars


(***************************************************************************)
(* Reading a workspace: get, markAsRead, markWorkspaceAsRead next to send, *)
(* addReaction and remove.                                                 *)
(***************************************************************************)

NextRead ==
  \/ \E workspaceId \in WorkspaceIds, userId \in UserIds, token \in CallerTokens :
       addToWorkspace(workspaceId, userId, "member", token)
  \/ \E text \in SentTexts, workspaceId \in WorkspaceIds, token \in CallerTokens :
       send(text, workspaceId, NoMessage, token)
  \/ \E messageId \in MessageIds, emoji \in {"+1"}, token \in CallerTokens :
       addReaction(messageId, emoji, token)
  \/ \E messageId \in MessageIds, token \in CallerTokens :
       markAsRead(messageId, token)
  \/ \E workspaceId \in WorkspaceIds, token \in CallerTokens :
       markWorkspaceAsRead(workspaceId, token)
  \/ \E messageId \in MessageIds, token \in CallerTokens :
       remove(messageId, token)
  \/ \E workspaceId \in WorkspaceIds, token \in CallerTokens :
       get(workspaceId, token)

SpecRead == InitWorkspace /\ [][NextRead]_vars

(***************************************************************************)
(* Pinning: pin and unpin next to addToWorkspace, send and edit.           *)
(***************************************************************************)
WorkspaceRoles == {"admin", "member", "viewer"}

SpecPin ==
  InitWorkspace /\
  [][ \/ \E workspaceId \in WorkspaceIds, userId \in UserIds,
            role \in WorkspaceRoles, token \in CallerTokens :
           addToWorkspace(workspaceId, userId, role, token)
      \/ \E text \in SentTexts, workspaceId \in WorkspaceIds, token \in CallerTokens :
           send(text, workspaceId, NoMessage, token)
      \/ \E messageId \in MessageIds, text \in EditedTexts, token \in CallerTokens :
           edit(messageId, text, token)
      \/ \E messageId \in MessageIds, token \in CallerTokens : pin(messageId, token)
      \/ \E messageId \in MessageIds, token \in CallerTokens : unpin(messageId, token) ]_vars


(***************************************************************************)
(* Onboarding.  The two users are the rows verifyOTP inserted: phone and   *)
(* status, no email.  One of them creates the organization and a           *)
(* workspace and invites; the other accepts, is admitted and sends.        *)
(***************************************************************************)
InitRegistered ==
  /\ InitSignedIn
  /\ \A u \in users : u.email = NoEmail

NextOnboard ==
  \/ \E firstName \in {"Bo"}, lastName \in {"Lee"}, token \in CallerTokens :
       updateUserName(firstName, lastName, token)
  \/ \E slug \in Slugs, token \in CallerTokens : organizationsCreate(slug, token)
  \/ \E orgId \in OrgIds, token \in CallerTokens : workspacesCreate(orgId, token)
  \/ \E orgId \in OrgIds, email \in Emails, token \in CallerTokens :
       createOrganizationInvitation(orgId, email, "member", FALSE, FALSE, token)
  \/ \E inviteToken \in InviteTokens, token \in CallerTokens :
       acceptOrganizationInvitation(inviteToken, token)
  \/ \E workspaceId \in WorkspaceIds, userId \in UserIds, token \in CallerTokens :
       addToWorkspace(workspaceId, userId, "member", token)
  \/ \E text \in SentTexts, workspaceId \in WorkspaceIds, token \in CallerTokens :
       send(text, workspaceId, NoMessage, token)

SpecOnboard == InitRegistered /\ [][NextOnboard]_vars

(***************************************************************************)
(* Workspace membership: addToWorkspace, updateWorkspaceMemberRole,        *)
(* removeFromWorkspace, removeFromOrganization and workspace invitations.  *)
(***************************************************************************)

NextWs ==
  \/ \E workspaceId \in WorkspaceIds, userId \in UserIds,
        role \in WorkspaceRoles, token \in CallerTokens :
       addToWorkspace(workspaceId, userId, role, token)
  \/ \E workspaceId \in WorkspaceIds, memberId \in UserIds,
        role \in WorkspaceRoles, token \in CallerTokens :
       updateWorkspaceMemberRole(workspaceId, memberId, role, token)
  \/ \E workspaceId \in WorkspaceIds, memberId \in UserIds,
        token \in CallerTokens :
       removeFromWorkspace(workspaceId, memberId, token)
  \/ \E orgId \in OrgIds, memberId \in UserIds, token \in CallerTokens :
       removeFromOrganization(orgId, memberId, token)
  \/ \E workspaceId \in WorkspaceIds, userId \in UserIds, token \in CallerTokens :
       createWorkspaceInvitation(workspaceId, userId, "member", token)
  \/ \E invitationId \in 1..(MaxWsInvitations + 1), token \in CallerTokens :
       acceptWorkspaceInvitation(invitationId, token)

SpecWs == InitWorkspace /\ [][NextWs]_vars

(***************************************************************************)
(* Deleting a workspace.  User 1 administers the workspace and invites     *)
(* user 2 to it; the workspace is deleted, messages are sent and           *)
(* invitations are accepted.                                               *)
(***************************************************************************)
SpecGone ==
  InitWorkspace /\
  [][ \/ \E token \in UserIds : createWorkspaceInvitation(1, 2, "member", token)
      \/ \E workspaceId \in WorkspaceIds, token \in CallerTokens :
           workspacesRemove(workspaceId, token)
      \/ \E invitationId \in 1..(MaxWsInvitations + 1), token \in UserIds :
           acceptWorkspaceInvitation(invitationId, token)
      \/ \E memberId \in UserIds, token \in UserIds :
           removeFromWorkspace(1, memberId, token)
      \/ \E text \in SentTexts, token \in UserIds :
           send(text, 1, NoMessage, token) ]_vars

(***************************************************************************)
(* Joining and leaving an organization: create, addToOrganization,         *)
(* invitations that are accepted, removeFromOrganization.                  *)
(***************************************************************************)
SpecJoin ==
  InitSignedIn /\
  [][ \/ \E slug \in Slugs, token \in CallerTokens : organizationsCreate(slug, token)
      \/ \E orgId \in OrgIds, email \in Emails, token \in CallerTokens :
           createOrganizationInvitation(orgId, email, "member", FALSE, FALSE, token)
      \/ \E orgId \in OrgIds, email \in Emails, token \in CallerTokens :
           addToOrganization(orgId, email, "member", FALSE, FALSE, token)
      \/ \E inviteToken \in InviteTokens, token \in CallerTokens :
           acceptOrganizationInvitation(inviteToken, token)
      \/ \E orgId \in OrgIds, memberId \in UserIds, token \in CallerTokens :
           removeFromOrganization(orgId, memberId, token) ]_vars


(***************************************************************************)
(* Reading an organization: the four queries next to create, remove and    *)
(* createOrganizationInvitation.                                           *)
(***************************************************************************)
SpecOrgRead ==
  InitSignedIn /\
  [][ \/ \E slug \in Slugs, token \in CallerTokens : organizationsCreate(slug, token)
      \/ \E orgId \in OrgIds, email \in Emails, token \in CallerTokens :
           createOrganizationInvitation(orgId, email, "member", FALSE, FALSE, token)
      \/ \E orgId \in OrgIds, token \in CallerTokens : organizationsRemove(orgId, token)
      \/ \E token \in CallerTokens : getUserOrganizations(token)
      \/ \E orgId \in OrgIds, token \in CallerTokens : getOrganization(orgId, token)
      \/ \E orgId \in OrgIds, token \in CallerTokens :
           getOrganizationMembers(orgId, token)
      \/ \E orgId \in OrgIds, token \in CallerTokens :
           getOrganizationInvitations(orgId, token) ]_vars


(***************************************************************************)
(* Capabilities.  The organizationMembers table admits the statuses        *)
(* active, suspended and pending_invitation; the handlers of convex/       *)
(* insert active rows only, and workspaces.create and the organization     *)
(* queries test the status, so a row of another status is data of the      *)
(* deployment.  User 1 owns the organization acme; the row of user 2       *)
(* starts with any role, flags and status.                                 *)
(***************************************************************************)
MemberStatuses == {"active", "suspended", "pending_invitation"}

InitMemberships ==
  /\ now = 0
  /\ users = {[id |-> p, phone |-> p, status |-> "online",
               email |-> EmailOf(p)] : p \in SignedIn}
  /\ sessions = {[userId |-> p, token |-> p, expiresAt |-> SessionTtl] :
                   p \in SignedIn}
  /\ otps = [p \in Phones |->
               IF p \in SignedIn
                 THEN <<[code |-> 10000, expiresAt |-> OtpTtl,
                         isUsed |-> TRUE]>>
                 ELSE <<>>]
  /\ nextToken = Cardinality(SignedIn) + 1
  /\ organizations = <<[slug |-> "acme", createdBy |-> 1, isActive |-> TRUE]>>
  /\ \E role \in MemberRoles, status \in MemberStatuses,
        ccw \in BOOLEAN, cim \in BOOLEAN :
       orgMembers =
         <<[organizationId |-> 1, userId |-> 1, role |-> "owner",
            canCreateWorkspaces |-> TRUE, canInviteMembers |-> TRUE,
            canManageBilling |-> TRUE, status |-> "active"],
           [organizationId |-> 1, userId |-> 2, role |-> role,
            canCreateWorkspaces |-> ccw, canInviteMembers |-> cim,
            canManageBilling |-> FALSE, status |-> status]>>
  /\ orgInvitations = <<>>
  /\ workspaces = <<>>
  /\ wsMembers = <<>>
  /\ wsInvitations = <<>>
  /\ messages = <<>>
  /\ reactions = EmptyBag
  /\ messageReads = {}
  /\ files = <<>>
  /\ blobs = {}
  /\ nextFile = 1
  /\ nextBlob = 1
  /\ inFlight = [c \in Clients |-> Idle]
  /\ last = [op |-> "init", res |-> "ok"]

NextPerm ==
  \/ \E orgId \in OrgIds, token \in CallerTokens :
       createOrganizationInvitation(orgId, "c@acme.io", "member", FALSE,
                                    FALSE, token)
  \/ \E orgId \in OrgIds, email \in Emails, token \in CallerTokens :
       addToOrganization(orgId, email, "member", FALSE, FALSE, token)
  \/ \E orgId \in OrgIds, token \in CallerTokens : workspacesCreate(orgId, token)
  \/ \E orgId \in OrgIds, memberId \in UserIds, role \in MemberRoles,
        token \in CallerTokens :
       updateOrganizationMemberRole(orgId, memberId, role, "unset", "unset",
                                    "unset", token)

SpecPerm == InitMemberships /\ [][NextPerm]_vars

(***************************************************************************)
(* Roles: the role a member gets from addToOrganization, from an accepted  *)
(* invitation and from updateOrganizationMemberRole.                       *)
(***************************************************************************)
\* a validator of the role argument that also admits owner
InvitableRolesWithOwner == {"owner", "admin", "member", "guest"}

\* args.role of addToOrganization and of createOrganizationInvitation:
\* v.union(v.literal('admin'), v.literal('member'), v.literal('guest'))
InvitableRoles == {"admin", "member", "guest"}

SpecRoles ==
  InitSignedIn /\
  [][ \/ \E slug \in Slugs, token \in CallerTokens :
           organizationsCreate(slug, token)
      \/ \E email \in Emails, role \in InvitableRoles, token \in CallerTokens :
           addToOrganization(1, email, role, FALSE, FALSE, token)
      \/ \E role \in InvitableRoles, token \in CallerTokens :
           createOrganizationInvitation(1, "b@acme.io", role, FALSE, FALSE,
                                        token)
      \/ \E inviteToken \in InviteTokens, token \in CallerTokens :
           acceptOrganizationInvitation(inviteToken, token)
      \/ \E memberId \in UserIds, role \in MemberRoles, token \in CallerTokens :
           updateOrganizationMemberRole(1, memberId, role, "unset", "unset",
                                        "unset", token) ]_vars

(***************************************************************************)
(* Leaving an organization.  Users 1 and 2 each own one organization, are  *)
(* a member of the other's, and each organization has one workspace with   *)
(* its owner as admin and the other user as member.                        *)
(***************************************************************************)
InitTwoOrgs ==
  /\ now = 0
  /\ users = {[id |-> p, phone |-> p, status |-> "online",
               email |-> EmailOf(p)] : p \in SignedIn}
  /\ sessions = {[userId |-> p, token |-> p, expiresAt |-> SessionTtl] :
                   p \in SignedIn}
  /\ otps = [p \in Phones |->
               IF p \in SignedIn
                 THEN <<[code |-> 10000, expiresAt |-> OtpTtl,
                         isUsed |-> TRUE]>>
                 ELSE <<>>]
  /\ nextToken = Cardinality(SignedIn) + 1
  /\ organizations = <<[slug |-> "acme", createdBy |-> 1, isActive |-> TRUE],
                       [slug |-> "beta", createdBy |-> 2, isActive |-> TRUE]>>
  /\ orgMembers =
       [i \in 1..4 |->
          [organizationId |-> (i + 1) \div 2,
           userId |-> IF i \in {1, 4} THEN 1 ELSE 2,
           role |-> IF i \in {1, 3} THEN "owner" ELSE "member",
           canCreateWorkspaces |-> i \in {1, 3},
           canInviteMembers |-> i \in {1, 3},
           canManageBilling |-> i \in {1, 3}, status |-> "active"]]
  /\ orgInvitations = <<>>
  /\ workspaces = [w \in 1..2 |-> [organizationId |-> w, createdBy |-> w,
                                   isArchived |-> FALSE]]
  /\ wsMembers =
       [i \in 1..4 |->
          [workspaceId |-> (i + 1) \div 2,
           userId |-> IF i \in {1, 4} THEN 1 ELSE 2,
           organizationId |-> (i + 1) \div 2,
           role |-> IF i \in {1, 3} THEN "admin" ELSE "member"]]
  /\ wsInvitations = <<>>
  /\ messages = <<>>
  /\ reactions = EmptyBag
  /\ messageReads = {}
  /\ files = <<>>
  /\ blobs = {}
  /\ nextFile = 1
  /\ nextBlob = 1
  /\ inFlight = [c \in Clients |-> Idle]
  /\ last = [op |-> "init", res |-> "ok"]

SpecCascade ==
  InitTwoOrgs /\
  [][ \/ \E orgId \in OrgIds, memberId \in UserIds, token \in CallerTokens :
           removeFromOrganization(orgId, memberId, token)
      \/ \E orgId \in OrgIds, email \in Emails, token \in CallerTokens :
           addToOrganization(orgId, email, "member", FALSE, FALSE, token)
      \/ \E workspaceId \in WorkspaceIds, userId \in UserIds,
            token \in CallerTokens :
           addToWorkspace(workspaceId, userId, "member", token)
      \/ \E workspaceId \in WorkspaceIds, memberId \in UserIds,
            token \in CallerTokens :
           removeFromWorkspace(workspaceId, memberId, token) ]_vars

(***************************************************************************)
(* Expiry of organization invitations: create, invite, accept and decline  *)
(* before and after the expiry of an invitation.                           *)
(***************************************************************************)
SpecExpiry ==
  InitSignedIn /\
  [][ \/ \E slug \in Slugs, token \in CallerTokens :
           organizationsCreate(slug, token)
      \/ \E email \in Emails, token \in CallerTokens :
           createOrganizationInvitation(1, email, "member", FALSE, FALSE,
                                        token)
      \/ \E inviteToken \in InviteTokens, token \in CallerTokens :
           acceptOrganizationInvitation(inviteToken, token)
      \/ \E inviteToken \in InviteTokens, token \in CallerTokens :
           declineOrganizationInvitation(inviteToken, token)
      \/ \E t \in InvInstants : Tick(t) ]_vars

(***************************************************************************)
(* Threads.  Both users are members of both workspaces (of two             *)
(* organizations) and send messages and replies; user 1 removes messages,  *)
(* and the first message is edited, pinned and unpinned.                   *)
(***************************************************************************)
SpecThread ==
  InitTwoOrgs /\
  [][ \/ \E text \in SentTexts, workspaceId \in WorkspaceIds,
            parentMessageId \in 0..(MaxMessages + MaxReplies + 1),
            token \in UserIds :
           send(text, workspaceId, parentMessageId, token)
      \/ \E text \in EditedTexts, token \in UserIds : edit(1, text, token)
      \/ \E messageId \in 1..(MaxMessages + MaxReplies) :
           remove(messageId, 1)
      \/ \E token \in UserIds : pin(1, token)
      \/ \E token \in UserIds : unpin(1, token) ]_vars

(***************************************************************************)
(* Replies in flight.  Two clients send at the same time: each send runs   *)
(* from await to await, and the calls of the two clients interleave.       *)
(***************************************************************************)
SpecReplies ==
  InitWorkspace /\
  [][ \/ \E client \in Clients, text \in SentTexts,
            parentMessageId \in 0..(MaxMessages + 1), token \in CallerTokens :
           sendInsert(client, text, 1, parentMessageId, token)
      \/ \E client \in Clients : sendGetParent(client)
      \/ \E client \in Clients : sendPatchParent(client) ]_vars

(***************************************************************************)
(* Files: upload, storeFileMetadata, deleteFile.                           *)
(***************************************************************************)
Contexts == {"profile_picture", "document"}
FileTypes == {"image/png", "text/plain"}
FileSizes == {1024, 6 * 1024 * 1024}
StorageIds == 1..MaxBlobs
FileIds == 1..(MaxFiles + 1)

NextFiles ==
  \/ \E context \in Contexts, fileType \in FileTypes, fileSize \in FileSizes,
        organizationId \in OrgIds, token \in CallerTokens :
       generateUploadUrl(context, fileType, fileSize, organizationId,
                         NoWorkspace, token)
  \/ \E storageId \in StorageIds, context \in Contexts,
        organizationId \in OrgIds, token \in CallerTokens :
       /\ storageId < nextBlob
       /\ storeFileMetadata(storageId, context, organizationId, NoWorkspace,
                            token)
  \/ \E fileId \in FileIds, token \in CallerTokens : deleteFile(fileId, token)

SpecFiles == InitWorkspace /\ [][NextFiles]_vars

(***************************************************************************)
(* Files of a workspace.  User 1 owns the organization and administers its *)
(* workspace; user 2 is a member of the organization and not of the        *)
(* workspace.  Both upload and store workspace logos, with and without     *)
(* naming the workspace.                                                   *)
(***************************************************************************)
ScopedWorkspaceIds == {NoWorkspace, 1}

SpecScope ==
  InitWorkspace /\
  [][ \/ \E workspaceId \in ScopedWorkspaceIds, token \in UserIds :
           generateUploadUrl("workspace_logo", "image/png", 1024, 1,
                             workspaceId, token)
      \/ \E storageId \in StorageIds, workspaceId \in ScopedWorkspaceIds,
            token \in UserIds :
           /\ storageId < nextBlob
           /\ storeFileMetadata(storageId, "workspace_logo", 1, workspaceId,
                                token) ]_vars

(***************************************************************************)
(* Uploads in flight.  Two clients of user 1 upload profile pictures and   *)
(* store them at the same time: each storeFileMetadata runs from await to  *)
(* await, and the calls of the two clients interleave.                     *)
(***************************************************************************)
SpecUploads ==
  InitWorkspace /\
  [][ \/ generateUploadUrl("profile_picture", "image/png", 1024, 1,
                           NoWorkspace, 1)
      \/ \E client \in Clients, storageId \in StorageIds :
           /\ storageId < nextBlob
           /\ storeFindOld(client, storageId, "profile_picture", 1,
                           NoWorkspace, 1)
      \/ \E client \in Clients : storeDeleteOld(client)
      \/ \E client \in Clients : storeInsert(client) ]_vars

(***************************************************************************)
(* Deleting files.  Both users upload and store profile pictures, and      *)
(* every caller deletes files and asks for their URLs.                     *)
(***************************************************************************)
SpecDelete ==
  InitWorkspace /\
  [][ \/ \E token \in UserIds :
           generateUploadUrl("profile_picture", "image/png", 1024, 1,
                             NoWorkspace, token)
      \/ \E storageId \in StorageIds, token \in UserIds :
           /\ storageId < nextBlob
           /\ storeFileMetadata(storageId, "profile_picture", 1, NoWorkspace,
                                token)
      \/ \E fileId \in FileIds, token \in CallerTokens :
           deleteFile(fileId, token)
      \/ \E fileId \in FileIds, token \in CallerTokens :
           getFileUrl(fileId, token) ]_vars

(***************************************************************************)
(* C1: each user has at most one session row, and right after a successful *)
(* verifyOTP the returned token resolves to the user while no token issued *)
(* earlier resolves to that user.                                          *)
(***************************************************************************)
C1_SingleSessionPerUser ==
  /\ \A s1, s2 \in sessions : s1.userId = s2.userId => s1 = s2
  /\ (last.op = "verifyOTP" /\ last.res = "ok") =>
       /\ getCurrentUserFromToken(last.sessionToken) = last.user
       /\ \A t \in 1..(nextToken - 1) :
            t # last.sessionToken => getCurrentUserFromToken(t) # last.user

\* the only user has just signed in for the second time
C1_Witness ==
  /\ last.op = "verifyOTP" /\ last.res = "ok"
  /\ last.sessionToken = 2
  /\ Cardinality(users) = 1

(***************************************************************************)
(* C2: resolving a token returns the user of the session row with that     *)
(* token when now <= expiresAt (in particular right after verifyOTP issued *)
(* it), and returns null, never an error, when the token is empty, matches *)
(* no row, or now > expiresAt.                                             *)
(***************************************************************************)
C2_ResolveFailsClosed ==
  /\ last.op = "getCurrentUser" =>
       /\ last.res = "ok"
       /\ \A s \in sessions :
            (s.token = last.sessionToken /\ now <= s.expiresAt)
              => last.user = s.userId
       /\ ( \/ last.sessionToken = EmptyToken
            \/ \A s \in sessions :
                 s.token = last.sessionToken => now > s.expiresAt )
            => last.user = NoUser
  /\ (last.op = "verifyOTP" /\ last.res = "ok") =>
       getCurrentUserFromToken(last.sessionToken) = last.user

\* a token whose session row is still stored but has expired was resolved
C2_Witness ==
  /\ last.op = "getCurrentUser"
  /\ last.user = NoUser
  /\ \E s \in sessions :
       s.token = last.sessionToken /\ now > s.expiresAt

(***************************************************************************)
(* C3: a successful verifyOTP turns an unused OTP row with the given code  *)
(* into a used one, and a verifyOTP for a phone whose OTP row is used and  *)
(* unexpired fails with the already-used error and issues no session.      *)
(***************************************************************************)
C3_Step ==
  /\ (last'.op = "verifyOTP" /\ last'.res = "ok") =>
       /\ \E o \in Rows(otps[last'.phone]) : o.code = last'.code /\ ~o.isUsed
       /\ \A o \in Rows(otps'[last'.phone]) : o.isUsed
  /\ ( /\ last'.op = "verifyOTP"
       /\ \E o \in Rows(otps[last'.phone]) :
            o.isUsed /\ now <= o.expiresAt )
       => /\ last'.res = "OTP has already been used"
          /\ UNCHANGED <<users, sessions, otps, nextToken>>

C3_OtpSingleUse == [][C3_Step]_vars

\* the code that was verified once has been presented again
C3_Witness ==
  /\ last.op = "verifyOTP"
  /\ last.res = "OTP has already been used"
  /\ \E o \in Rows(otps[last.phone]) :
       o.code = last.code /\ o.isUsed /\ now <= o.expiresAt

(***************************************************************************)
(* C4: in every reachable state every organization with isActive = TRUE    *)
(* has at least one organizationMembers row with role owner.               *)
(* updateOrganizationMemberRole has no last-owner test: the only owner can *)
(* change their own role, and the statement is violated.                   *)
(***************************************************************************)
C4_ActiveOrgHasOwner ==
  \A o \in 1..Len(organizations) :
    organizations[o].isActive =>
      \E i \in 1..Len(orgMembers) :
        orgMembers[i].organizationId = o /\ orgMembers[i].role = "owner"

(***************************************************************************)
(* C5: a removeFromOrganization call that reaches the last-owner test (an  *)
(* authenticated caller removing themself or being owner/admin) and        *)
(* targets an owner row fails with the last-owner error and changes no     *)
(* organization or workspace membership row when the organization has      *)
(* exactly one owner row; when a second member holds the owner role the    *)
(* call succeeds and the target's row is gone.                             *)
(***************************************************************************)
C5_Step ==
  \A orgId \in OrgIds, memberId \in UserIds, token \in CallerTokens :
    LET user == getCurrentUserFromToken(token)
        rowsOf(u) == {i \in 1..Len(orgMembers) :
                        /\ orgMembers[i].organizationId = orgId
                        /\ orgMembers[i].userId = u}
        owners == {i \in 1..Len(orgMembers) :
                     /\ orgMembers[i].organizationId = orgId
                     /\ orgMembers[i].role = "owner"}
    IN
    ( /\ last'.op = "removeFromOrganization"
      /\ user # NoUser
      /\ \E i \in rowsOf(memberId) : i \in owners
      /\ \/ user = memberId
         \/ \E i \in rowsOf(user) : orgMembers[i].role \in {"owner", "admin"}
      /\ removeFromOrganization(orgId, memberId, token) )
    => IF Cardinality(owners) = 1
         THEN /\ last'.res = "Cannot remove the last owner"
              /\ orgMembers' = orgMembers
              /\ wsMembers' = wsMembers
         ELSE /\ last'.res = "ok"
              /\ \A i \in 1..Len(orgMembers') :
                   ~( /\ orgMembers'[i].organizationId = orgId
                      /\ orgMembers'[i].userId = memberId )

C5_LastOwnerStays == [][C5_Step]_vars

\* an owner has just been removed while another owner remained
C5_Witness ==
  /\ last.op = "removeFromOrganization"
  /\ last.res = "ok"
  /\ last.role = "owner"
  /\ \E i \in 1..Len(orgMembers) :
       orgMembers[i].role = "owner" /\ orgMembers[i].userId # last.memberId

(***************************************************************************)
(* C6: in every reachable state there is at most one pending invitation    *)
(* row per (organizationId, email); a createOrganizationInvitation call by *)
(* an authorized inviter for a pair that has a pending row fails with a    *)
(* conflict error (invitation already sent, or already a member) and       *)
(* inserts nothing.                                                        *)
(***************************************************************************)
C6_OnePending ==
  \A i, j \in 1..Len(orgInvitations) :
    ( /\ orgInvitations[i].status = "pending"
      /\ orgInvitations[j].status = "pending"
      /\ orgInvitations[i].organizationId = orgInvitations[j].organizationId
      /\ orgInvitations[i].email = orgInvitations[j].email ) => i = j

C6_Step ==
  \A orgId \in OrgIds, email \in Emails, token \in CallerTokens :
    ( /\ last'.op = "createOrganizationInvitation"
      /\ getCurrentUserFromToken(token) # NoUser
      /\ MayInvite(orgId, getCurrentUserFromToken(token))
      /\ \E i \in 1..Len(orgInvitations) :
           /\ orgInvitations[i].organizationId = orgId
           /\ orgInvitations[i].email = email
           /\ orgInvitations[i].status = "pending"
      /\ createOrganizationInvitation(orgId, email, "member", FALSE, FALSE,
                                      token) )
    => /\ last'.res \in {"Invitation already sent",
                         "User is already a member"}
       /\ orgInvitations' = orgInvitations

C6_AtMostOnePending == []C6_OnePending /\ [][C6_Step]_vars

\* a second invitation for a pair with a pending row was just refused
C6_Witness ==
  /\ last.op = "createOrganizationInvitation"
  /\ last.res = "Invitation already sent"
  /\ \E i \in 1..Len(orgInvitations) : orgInvitations[i].status = "pending"
  /\ Len(orgInvitations) < MaxInvitations

(***************************************************************************)
(* C7.  A createOrganizationInvitation call by an authorized inviter for a *)
(* pair whose earlier invitation was accepted, declined or revoked and     *)
(* that has no pending row:                                                *)
(*   - as stated: succeeds and inserts a new pending invitation;           *)
(*   - as amended: does so unless a user with that email is a member of    *)
(*     the organization (as the acceptor is once the invitation has been   *)
(*     accepted); then it fails with the already-a-member error and        *)
(*     inserts nothing.                                                    *)
(***************************************************************************)
C7_Settled(orgId, email) ==
  /\ \E i \in 1..Len(orgInvitations) :
       /\ orgInvitations[i].organizationId = orgId
       /\ orgInvitations[i].email = email
       /\ orgInvitations[i].status \in {"accepted", "declined", "revoked"}
  /\ \A i \in 1..Len(orgInvitations) :
       ( /\ orgInvitations[i].organizationId = orgId
         /\ orgInvitations[i].email = email )
       => orgInvitations[i].status # "pending"

C7_Inserted(orgId, email) ==
  /\ last'.res = "ok"
  /\ Len(orgInvitations') = Len(orgInvitations) + 1
  /\ SubSeq(orgInvitations', 1, Len(orgInvitations)) = orgInvitations
  /\ orgInvitations'[Len(orgInvitations')].organizationId = orgId
  /\ orgInvitations'[Len(orgInvitations')].email = email
  /\ orgInvitations'[Len(orgInvitations')].status = "pending"

C7_Call(orgId, email, token) ==
  /\ last'.op = "createOrganizationInvitation"
  /\ getCurrentUserFromToken(token) # NoUser
  /\ MayInvite(orgId, getCurrentUserFromToken(token))
  /\ C7_Settled(orgId, email)
  /\ createOrganizationInvitation(orgId, email, "member", FALSE, FALSE, token)

C7_IsMember(orgId, email) ==
  \E u \in users :
    /\ u.email = email
    /\ \E i \in 1..Len(orgMembers) :
         /\ orgMembers[i].organizationId = orgId
         /\ orgMembers[i].userId = u.id

C7_OriginalStep ==
  \A orgId \in OrgIds, email \in Emails, token \in CallerTokens :
    C7_Call(orgId, email, token) => C7_Inserted(orgId, email)

C7_AmendedStep ==
  \A orgId \in OrgIds, email \in Emails, token \in CallerTokens :
    C7_Call(orgId, email, token) =>
      IF C7_IsMember(orgId, email)
        THEN /\ last'.res = "User is already a member"
             /\ orgInvitations' = orgInvitations
        ELSE C7_Inserted(orgId, email)

C8_Step ==
  \A messageId \in MessageIds, text \in EditedTexts, token \in CallerTokens :
    ( /\ last'.op = "messages.edit"
      /\ messageId \in 1..Len(messages)
      /\ edit(messageId, text, token) )
    => LET message == messages[messageId]
           allowed == /\ getCurrentUserFromToken(token) = message.userId
                      /\ now - message.creationTime <= 15 * 60
       IN
       /\ last'.res = "ok" <=> allowed
       /\ allowed =>
            /\ messages'[messageId].text = Trim(text)
            /\ messages'[messageId].isEdited
            /\ messages'[messageId].editedAt = now
       /\ ~allowed => messages' = messages

C8_EditWindow == [][C8_Step]_vars

\* a message edited by its author 14min59s after it was sent has just been
\* refused a second edit at 15min01s
C8_Witness ==
  /\ last.op = "messages.edit"
  /\ last.res = "Can only edit messages within 15 minutes"
  /\ \E i \in 1..Len(messages) :
       /\ now = messages[i].creationTime + 15 * 60 + 1
       /\ messages[i].isEdited
       /\ messages[i].editedAt = messages[i].creationTime + 15 * 60 - 1
       /\ messages[i].text = <<"y", "o">>

(***************************************************************************)
(* C9: in every reachable state there is at most one reactions row per     *)
(* (messageId, userId, emoji).  An addReaction call by a workspace member  *)
(* fails and inserts nothing when the caller's row for that message and    *)
(* emoji exists, and otherwise succeeds and inserts it (whatever other     *)
(* emojis the caller has on the message); a successful removeReaction      *)
(* leaves no row of the triple, so that a later addReaction succeeds.      *)
(***************************************************************************)
C9_OneRowPerTriple ==
  \A r \in BagToSet(reactions) :
    /\ CopiesIn(r, reactions) = 1
    /\ \A q \in BagToSet(reactions) :
         ( /\ q.messageId = r.messageId
           /\ q.userId = r.userId
           /\ q.emoji = r.emoji ) => q = r

C9_Has(bag, messageId, userId, emoji) ==
  \E r \in BagToSet(bag) :
    r.messageId = messageId /\ r.userId = userId /\ r.emoji = emoji

C9_AddStep ==
  \A messageId \in MessageIds, emoji \in Emojis, token \in CallerTokens :
    LET user == getCurrentUserFromToken(token) IN
    ( /\ last'.op = "addReaction"
      /\ user # NoUser
      /\ messageId \in 1..Len(messages)
      /\ checkWorkspaceAccess(user, messages[messageId].workspaceId)
      /\ addReaction(messageId, emoji, token) )
    => IF C9_Has(reactions, messageId, user, emoji)
         THEN /\ last'.res = "You already reacted with this emoji"
              /\ reactions' = reactions
         ELSE /\ last'.res = "ok"
              /\ C9_Has(reactions', messageId, user, emoji)
              /\ \A r \in BagToSet(reactions) :
                   CopiesIn(r, reactions') = CopiesIn(r, reactions)

C9_RemoveStep ==
  \A messageId \in MessageIds, emoji \in Emojis, token \in CallerTokens :
    ( /\ last'.op = "removeReaction"
      /\ last'.res = "ok"
      /\ removeReaction(messageId, emoji, token) )
    => ~C9_Has(reactions', messageId, getCurrentUserFromToken(token), emoji)

C9_ReactionUnique ==
  []C9_OneRowPerTriple /\ [][C9_AddStep /\ C9_RemoveStep]_vars

\* a user holding two emojis on a message was just refused a duplicate
C9_Witness ==
  /\ last.op = "addReaction"
  /\ last.res = "You already reacted with this emoji"
  /\ \E r, q \in BagToSet(reactions) :
       /\ r.messageId = q.messageId
       /\ r.userId = q.userId
       /\ r.emoji # q.emoji

(***************************************************************************)
(* C10: with storeFileMetadata calls running one at a time, there is at    *)
(* most one files row with context profile_picture per (organization,      *)
(* uploader); after a successful profile_picture call there is exactly     *)
(* one, it is the row of that call, and the blob of the row it replaced    *)
(* is no longer in the blob store; a blob that left the store never comes  *)
(* back.                                                                   *)
(***************************************************************************)
C10_Pictures(rows, organizationId, userId) ==
  {i \in 1..Len(rows) :
     /\ rows[i].context = "profile_picture"
     /\ rows[i].organizationId = organizationId
     /\ rows[i].uploadedBy = userId}

C10_AtMostOne ==
  \A organizationId \in OrgIds, userId \in UserIds :
    Cardinality(C10_Pictures(files, organizationId, userId)) <= 1

C10_StoreStep ==
  \A storageId \in StorageIds, organizationId \in OrgIds,
     token \in CallerTokens :
    LET user == getCurrentUserFromToken(token) IN
    ( /\ last'.op = "storeFileMetadata"
      /\ last'.res = "ok"
      /\ storeFileMetadata(storageId, "profile_picture", organizationId,
                           NoWorkspace, token) )
    => /\ Cardinality(C10_Pictures(files', organizationId, user)) = 1
       /\ \A i \in C10_Pictures(files', organizationId, user) :
            files'[i].id = last'.file /\ files'[i].storageId = storageId
       /\ \A i \in C10_Pictures(files, organizationId, user) :
            files[i].storageId \notin blobs'

C10_GoneStep ==
  \A b \in 1..(nextBlob - 1) : b \notin blobs => b \notin blobs'

C10_SinglePicture ==
  []C10_AtMostOne /\ [][C10_StoreStep /\ C10_GoneStep]_vars

\* the second profile picture of a user has replaced the first
C10_Witness ==
  /\ last.op = "storeFileMetadata"
  /\ last.res = "ok"
  /\ Len(files) = 1
  /\ files[1].context = "profile_picture"
  /\ files[1].id = 2
  /\ files[1].storageId = 2
  /\ blobs = {2}

(***************************************************************************)
(* C11: a message that messages.remove soft-deleted is in no later answer  *)
(* of messages.get for its workspace: a get that succeeds returns no row   *)
(* with isDeleted set, and no call clears isDeleted or drops the row.  The *)
(* remove itself only patches the row: the table keeps its length, every   *)
(* other row, and the reactions and messageReads tables stay as they were. *)
(***************************************************************************)
C11_GetStep ==
  \A workspaceId \in WorkspaceIds, token \in CallerTokens :
    ( /\ last'.op = "messages.get"
      /\ last'.res = "ok"
      /\ get(workspaceId, token) )
    => \A m \in 1..Len(messages) :
         messages[m].isDeleted => m \notin last'.messages

C11_StaysDeleted ==
  \A m \in 1..Len(messages) :
    messages[m].isDeleted
    => m \in 1..Len(messages') /\ messages'[m].isDeleted

C11_RemoveStep ==
  \A messageId \in MessageIds, token \in CallerTokens :
    ( /\ last'.op = "messages.remove"
      /\ last'.res = "ok"
      /\ remove(messageId, token) )
    => /\ Len(messages') = Len(messages)
       /\ messages'[messageId].isDeleted
       /\ \A m \in 1..Len(messages) :
            m # messageId => messages'[m] = messages[m]
       /\ reactions' = reactions
       /\ messageReads' = messageReads

C11_SoftDelete ==
  [][C11_GetStep /\ C11_StaysDeleted /\ C11_RemoveStep]_vars

\* C11 witness: a get of the workspace succeeded while a message of that
\* workspace is deleted and still has a reaction and a read receipt
C11_Witness ==
  /\ last.op = "messages.get"
  /\ last.res = "ok"
  /\ \E m \in 1..Len(messages) :
       /\ messages[m].isDeleted
       /\ messages[m].workspaceId = last.workspaceId
       /\ m \notin last.messages
       /\ \E r \in BagToSet(reactions) : r.messageId = m
       /\ \E r \in messageReads : r.messageId = m

(***************************************************************************)
(* C12: isPinned of a message changes only in a pin or unpin that          *)
(* succeeds, and pin and unpin succeed exactly for a signed-in caller      *)
(* whose workspaceMembers row in the workspace of the message has role     *)
(* admin; for a member, a viewer or a user with no row the call fails and  *)
(* leaves the messages table as it was.                                    *)
(***************************************************************************)
C12_IsAdmin(userId, workspaceId) ==
  \E i \in 1..Len(wsMembers) :
    /\ wsMembers[i].workspaceId = workspaceId
    /\ wsMembers[i].userId = userId
    /\ wsMembers[i].role = "admin"

C12_OnlyPinUnpin ==
  \A m \in 1..Len(messages) :
    ( /\ m \in 1..Len(messages')
      /\ messages'[m].isPinned # messages[m].isPinned )
    => /\ last'.op \in {"messages.pin", "messages.unpin"}
       /\ last'.res = "ok"

C12_PinStep ==
  \A messageId \in MessageIds, token \in CallerTokens :
    ( /\ last'.op = "messages.pin"
      /\ messageId \in 1..Len(messages)
      /\ pin(messageId, token) )
    => LET admin == C12_IsAdmin(getCurrentUserFromToken(token),
                                messages[messageId].workspaceId)
       IN /\ last'.res = "ok" <=> admin
          /\ admin => messages'[messageId].isPinned
          /\ ~admin => messages' = messages

C12_UnpinStep ==
  \A messageId \in MessageIds, token \in CallerTokens :
    ( /\ last'.op = "messages.unpin"
      /\ messageId \in 1..Len(messages)
      /\ unpin(messageId, token) )
    => LET admin == C12_IsAdmin(getCurrentUserFromToken(token),
                                messages[messageId].workspaceId)
       IN /\ last'.res = "ok" <=> admin
          /\ admin => ~messages'[messageId].isPinned
          /\ ~admin => messages' = messages

C12_PinnedByAdminsOnly ==
  [][C12_OnlyPinUnpin /\ C12_PinStep /\ C12_UnpinStep]_vars

\* C12 witness: a message is pinned, and an unpin by a caller who is not an
\* admin of the workspace has just been refused
C12_Witness ==
  /\ last.op = "messages.unpin"
  /\ last.res = "Only workspace admins can unpin messages"
  /\ Len(wsMembers) > 1
  /\ \E m \in 1..Len(messages) : messages[m].isPinned

(***************************************************************************)
(* C13: the onboarding sequence exists.  Its step from an invitation to a  *)
(* membership is possible: whenever user A owns an organization and is     *)
(* admin of a workspace in it, a second registered user B is signed in and *)
(* not a member, and A has a pending, unexpired invitation with role       *)
(* member out for every address A can name, B can accept one of them.      *)
(* (The later steps, addToWorkspace by A and send by B, need B's           *)
(* membership.)                                                            *)
(***************************************************************************)
C13_Owns(a, orgId) ==
  /\ \E i \in 1..Len(orgMembers) :
       /\ orgMembers[i].organizationId = orgId
       /\ orgMembers[i].userId = a
       /\ orgMembers[i].role = "owner"
  /\ \E i \in 1..Len(wsMembers) :
       /\ wsMembers[i].organizationId = orgId
       /\ wsMembers[i].userId = a
       /\ wsMembers[i].role = "admin"

C13_Invited(a, orgId, email) ==
  \E i \in 1..Len(orgInvitations) :
    /\ orgInvitations[i].organizationId = orgId
    /\ orgInvitations[i].email = email
    /\ orgInvitations[i].invitedBy = a
    /\ orgInvitations[i].role = "member"
    /\ orgInvitations[i].status = "pending"
    /\ now <= orgInvitations[i].expiresAt

C13_OnboardingPossible ==
  \A a \in UserIds, orgId \in OrgIds, token \in CallerTokens :
    LET b == getCurrentUserFromToken(token) IN
    ( /\ b # NoUser
      /\ b # a
      /\ C13_Owns(a, orgId)
      /\ ~\E i \in 1..Len(orgMembers) :
            /\ orgMembers[i].organizationId = orgId
            /\ orgMembers[i].userId = b
      /\ \A email \in Emails : C13_Invited(a, orgId, email) )
    => \E inviteToken \in InviteTokens :
         ENABLED ( /\ acceptOrganizationInvitation(inviteToken, token)
                   /\ last'.res = "ok" )

(***************************************************************************)
(* C14: a call of any operation that takes a session token, made with a    *)
(* token that is empty, unknown or past its expiresAt, is refused as not   *)
(* authenticated (the query getCurrentUser answers null, updateUserName    *)
(* throws 'Invalid or expired session', every other handler throws 'Not    *)
(* authenticated') and leaves every table as it was.                       *)
(***************************************************************************)
C14_BadToken(token) ==
  \/ token = EmptyToken
  \/ ~\E s \in sessions : s.token = token
  \/ \E s \in sessions : s.token = token /\ now > s.expiresAt

C14_AuthCall(token) ==
  \/ getCurrentUser(token)
  \/ signOut(token)
  \/ \E firstName \in {"Bo"}, lastName \in {"Lee"} :
       updateUserName(firstName, lastName, token)

C14_OrgCall(token) ==
  \/ \E slug \in Slugs : organizationsCreate(slug, token)
  \/ \E orgId \in OrgIds :
       \/ organizationsRemove(orgId, token)
       \/ workspacesCreate(orgId, token)
       \/ \E email \in Emails, role \in MemberRoles :
            \/ addToOrganization(orgId, email, role, FALSE, FALSE, token)
            \/ createOrganizationInvitation(orgId, email, role, FALSE, FALSE,
                                            token)
       \/ \E memberId \in UserIds :
            \/ removeFromOrganization(orgId, memberId, token)
            \/ \E role \in MemberRoles :
                 updateOrganizationMemberRole(orgId, memberId, role, "unset",
                                              "unset", "unset", token)
  \/ \E inviteToken \in InviteTokens :
       \/ acceptOrganizationInvitation(inviteToken, token)
       \/ declineOrganizationInvitation(inviteToken, token)
       \/ revokeOrganizationInvitation(inviteToken, token)
  \/ \E workspaceId \in WorkspaceIds, userId \in UserIds,
        role \in WorkspaceRoles :
       addToWorkspace(workspaceId, userId, role, token)

C14_MessageCall(token) ==
  \/ \E workspaceId \in WorkspaceIds :
       \/ get(workspaceId, token)
       \/ markWorkspaceAsRead(workspaceId, token)
       \/ \E text \in SentTexts, parentMessageId \in {NoMessage} \cup MessageIds :
            send(text, workspaceId, parentMessageId, token)
  \/ \E messageId \in MessageIds :
       \/ remove(messageId, token)
       \/ pin(messageId, token)
       \/ unpin(messageId, token)
       \/ markAsRead(messageId, token)
       \/ \E text \in EditedTexts : edit(messageId, text, token)
       \/ \E emoji \in Emojis :
            \/ addReaction(messageId, emoji, token)
            \/ removeReaction(messageId, emoji, token)

C14_FileCall(token) ==
  \/ \E fileId \in FileIds : deleteFile(fileId, token)
  \/ \E context \in Contexts, organizationId \in OrgIds :
       \/ \E storageId \in StorageIds :
            storeFileMetadata(storageId, context, organizationId, NoWorkspace,
                              token)
       \/ \E fileType \in FileTypes, fileSize \in FileSizes :
            generateUploadUrl(context, fileType, fileSize, organizationId,
                              NoWorkspace, token)

C14_Refused ==
  \/ last'.res \in {"Not authenticated", "Invalid or expired session"}
  \/ last'.op = "getCurrentUser" /\ last'.user = NoUser

C14_Step ==
  \A token \in Tokens :
    ( /\ C14_BadToken(token)
      /\ \/ C14_AuthCall(token)
         \/ C14_OrgCall(token)
         \/ C14_MessageCall(token)
         \/ C14_FileCall(token) )
    => /\ C14_Refused
       /\ UNCHANGED <<authVars, dataVars>>

C14_BadTokenRefused == [][C14_Step]_vars

(***************************************************************************)
(* C15: a messaging operation changes the messages, reactions or           *)
(* messageReads tables, or returns messages, only for a caller who holds   *)
(* a workspaceMembers row of the workspace concerned at the time of the    *)
(* call: the workspace named in the call (send, get, markWorkspaceAsRead)  *)
(* or the workspace of the message named in the call (edit, remove, pin,   *)
(* unpin, addReaction, removeReaction, markAsRead).                        *)
(***************************************************************************)
C15_Member(token, workspaceId) ==
  \E i \in 1..Len(wsMembers) :
    /\ wsMembers[i].workspaceId = workspaceId
    /\ wsMembers[i].userId = getCurrentUserFromToken(token)

C15_WorkspaceCall(workspaceId, token) ==
  \/ get(workspaceId, token) /\ last'.res = "ok"
  \/ markWorkspaceAsRead(workspaceId, token)
  \/ \E text \in SentTexts, parentMessageId \in {NoMessage} \cup MessageIds :
       send(text, workspaceId, parentMessageId, token)

C15_MessageCall(messageId, token) ==
  \/ remove(messageId, token)
  \/ pin(messageId, token)
  \/ unpin(messageId, token)
  \/ markAsRead(messageId, token)
  \/ \E text \in EditedTexts : edit(messageId, text, token)
  \/ \E emoji \in Emojis :
       \/ addReaction(messageId, emoji, token)
       \/ removeReaction(messageId, emoji, token)

C15_Step ==
  /\ \A workspaceId \in WorkspaceIds, token \in CallerTokens :
       ( /\ last'.res = "ok"
         /\ msgVars' # msgVars \/ last'.op = "messages.get"
         /\ C15_WorkspaceCall(workspaceId, token) )
       => C15_Member(token, workspaceId)
  /\ \A messageId \in MessageIds, token \in CallerTokens :
       ( /\ msgVars' # msgVars
         /\ messageId \in 1..Len(messages)
         /\ C15_MessageCall(messageId, token) )
       => C15_Member(token, messages[messageId].workspaceId)

C15_MembersOnly == [][C15_Step]_vars

(***************************************************************************)
(* C16: the status of an organization invitation changes only out of       *)
(* pending: a row that is accepted, declined, revoked or expired keeps     *)
(* that status in every step (accept, decline, revoke and                  *)
(* cleanupExpiredInvitations included).                                    *)
(***************************************************************************)
C16_Step ==
  \A i \in 1..Len(orgInvitations) :
    orgInvitations[i].status # "pending"
    => /\ i \in 1..Len(orgInvitations')
       /\ orgInvitations'[i].status = orgInvitations[i].status

C16_StatusFinal == [][C16_Step]_vars

(***************************************************************************)
(* C17: in every reachable state each workspace that is not archived has   *)
(* at least one workspaceMembers row with role admin.                      *)
(***************************************************************************)
C17_WorkspaceHasAdmin ==
  \A w \in 1..Len(workspaces) :
    ~workspaces[w].isArchived
    => \E i \in 1..Len(wsMembers) :
         wsMembers[i].workspaceId = w /\ wsMembers[i].role = "admin"

(***************************************************************************)
(* C20: a workspaceMembers row is inserted (by addToWorkspace or by        *)
(* acceptWorkspaceInvitation) only for a user who holds, at the time of    *)
(* the call, an active organizationMembers row in the organization of the  *)
(* workspace.                                                              *)
(***************************************************************************)
C20_Step ==
  Len(wsMembers') > Len(wsMembers)
  => LET row == wsMembers'[Len(wsMembers')] IN
     \E i \in 1..Len(orgMembers) :
       /\ orgMembers[i].organizationId =
            workspaces[row.workspaceId].organizationId
       /\ orgMembers[i].userId = row.userId
       /\ orgMembers[i].status = "active"

C18_OneRowPerMember ==
  \A i, j \in 1..Len(orgMembers) :
    ( /\ orgMembers[i].organizationId = orgMembers[j].organizationId
      /\ orgMembers[i].userId = orgMembers[j].userId )
    => i = j

\* C18 witness: two invitations to the same address are both accepted, the
\* second just now, and the user who accepted them is a member
C18_Witness ==
  /\ last.op = "acceptOrganizationInvitation"
  /\ last.res = "ok"
  /\ \E i, j \in 1..Len(orgInvitations) :
       /\ i # j
       /\ orgInvitations[i].email = orgInvitations[j].email
       /\ orgInvitations[i].organizationId = orgInvitations[j].organizationId
       /\ orgInvitations[i].status = "accepted"
       /\ orgInvitations[j].status = "accepted"
       /\ \E u \in users, k \in 1..Len(orgMembers) :
            /\ u.email = orgInvitations[i].email
            /\ orgMembers[k].userId = u.id
            /\ orgMembers[k].organizationId = orgInvitations[i].organizationId

(***************************************************************************)
(* C19: an organization whose isActive is false is returned by no read:    *)
(* the answer of getOrganization and of getUserOrganizations names active  *)
(* organizations only, and getOrganizationMembers and                      *)
(* getOrganizationInvitations return rows of active organizations only.    *)
(* A query changes no table, so the state after the call is the state the  *)
(* call read.                                                              *)
(***************************************************************************)
C19_InactiveInvisible ==
  last.res = "ok"
  => /\ last.op = "getOrganization"
          => organizations[last.organizationId].isActive
     /\ last.op = "getUserOrganizations"
          => \A o \in last.organizations : organizations[o].isActive
     /\ (last.op = "getOrganizationMembers" /\ last.members # {})
          => organizations[last.organizationId].isActive
     /\ (last.op = "getOrganizationInvitations" /\ last.invitations # {})
          => organizations[last.organizationId].isActive

(***************************************************************************)
(* C21: a handler that gates on an organization capability admits an       *)
(* authenticated caller exactly when hasOrganizationPermission holds for   *)
(* the caller, the organization and that capability:                       *)
(* createOrganizationInvitation and addToOrganization for                  *)
(* canInviteMembers, workspaces.create for canCreateWorkspaces,            *)
(* updateOrganizationMemberRole for isAdmin.  A caller whose membership is *)
(* suspended or pending_invitation is therefore refused by all four.       *)
(***************************************************************************)
\* the errors with which the four handlers refuse a caller at the gate
C21_Refusals ==
  {"Not authorized to send invitations", "Not authorized to invite members",
   "No access to organization", "Not authorized to create workspaces",
   "Not authorized"}

\* the call made in this step, by an authenticated caller, and the
\* capability its handler gates on
C21_Call(orgId, token, permission) ==
  /\ getCurrentUserFromToken(token) # NoUser
  /\ \/ /\ permission = "canInviteMembers"
        /\ last'.op = "createOrganizationInvitation"
        /\ createOrganizationInvitation(orgId, "c@acme.io", "member", FALSE,
                                        FALSE, token)
     \/ /\ permission = "canInviteMembers"
        /\ last'.op = "addToOrganization"
        /\ \E email \in Emails :
             addToOrganization(orgId, email, "member", FALSE, FALSE, token)
     \/ /\ permission = "canCreateWorkspaces"
        /\ last'.op = "workspaces.create"
        /\ workspacesCreate(orgId, token)
     \/ /\ permission = "isAdmin"
        /\ last'.op = "updateOrganizationMemberRole"
        /\ \E memberId \in UserIds, role \in MemberRoles :
             updateOrganizationMemberRole(orgId, memberId, role, "unset",
                                          "unset", "unset", token)

C21_Step ==
  \A orgId \in OrgIds, token \in CallerTokens,
     permission \in {"canInviteMembers", "canCreateWorkspaces", "isAdmin"} :
    C21_Call(orgId, token, permission)
    => ( last'.res \notin C21_Refusals
         <=> hasOrganizationPermission(getCurrentUserFromToken(token), orgId,
                                       permission) )

C22_Step ==
  last'.op = "verifyOTP"
  => LET phone == last'.phone
         found == otps[phone]
     IN
     /\ IF found = <<>> THEN
          /\ last'.res = "No OTP found for this phone number"
          /\ otps' = otps
        ELSE IF now > found[1].expiresAt THEN
          /\ last'.res = "OTP has expired"
          /\ otps' = [otps EXCEPT ![phone] = Tail(found)]
        ELSE IF found[1].isUsed THEN
          /\ last'.res = "OTP has already been used"
          /\ otps' = otps
        ELSE IF found[1].code # last'.code THEN
          /\ last'.res = "Invalid OTP code"
          /\ otps' = otps
        ELSE last'.res = "ok"
     /\ last'.res # "ok"
          => /\ users' = users
             /\ sessions' = sessions
             /\ nextToken' = nextToken

C23_OneRow == \A p \in Phones : Len(otps[p]) <= 1

C23_Step ==
  /\ last'.op = "generateOTP"
       => \E p \in Phones :
            /\ Len(otps'[p]) = 1
            /\ ~otps'[p][1].isUsed
            /\ otps'[p][1].expiresAt = now + OtpTtl
            /\ \A q \in Phones \ {p} : otps'[q] = otps[q]
  /\ (last'.op = "verifyOTP" /\ last'.res = "ok")
       => /\ Len(otps[last'.phone]) = 1
          /\ otps[last'.phone][1].code = last'.code
          /\ ~otps[last'.phone][1].isUsed

C23_OneLiveOtp == []C23_OneRow /\ [][C23_Step]_vars

\* C23 witness: the only user has just signed in for the second time, which
\* took a second generateOTP for the phone, whose single row is now used
C23_Witness ==
  /\ last.op = "verifyOTP"
  /\ last.res = "ok"
  /\ last.sessionToken = 2
  /\ Cardinality(users) = 1
  /\ Len(otps[last.phone]) = 1
  /\ otps[last.phone][1].isUsed

(***************************************************************************)
(* C24: cleanupExpiredSessions deletes exactly the session rows with       *)
(* expiresAt < now, so every token resolves to the same answer before the  *)
(* sweep, after it, and at every point in between, when some expired rows  *)
(* are deleted and others not yet.  getCurrentUser never throws, and       *)
(* answers null or the user of the session row that carries the token.     *)
(***************************************************************************)
\* what a token resolves to over the sessions table ss
C24_Resolve(ss, token) ==
  IF token = EmptyToken \/ ~\E s \in ss : s.token = token THEN NoUser
  ELSE LET session == CHOOSE s \in ss : s.token = token IN
       IF now > session.expiresAt THEN NoUser ELSE session.userId

C24_SweepStep ==
  last'.op = "cleanupExpiredSessions"
  => /\ sessions' = {s \in sessions : ~(s.expiresAt < now)}
     /\ last'.deletedCount = Cardinality(sessions) - Cardinality(sessions')
     /\ \A gone \in SUBSET {s \in sessions : s.expiresAt < now},
           token \in Tokens :
          C24_Resolve(sessions \ gone, token) = C24_Resolve(sessions, token)

C24_ResolveStep ==
  last'.op = "getCurrentUser"
  => /\ last'.res = "ok"
     /\ last'.user = C24_Resolve(sessions, last'.sessionToken)
     /\ \/ last'.user = NoUser
        \/ \E s \in sessions :
             s.token = last'.sessionToken /\ s.userId = last'.user

C24_SweepIsInvisible == [][C24_SweepStep /\ C24_ResolveStep]_vars

\* C24 witness: a sweep has just deleted an expired session and has left a
\* session that still resolves
C24_Witness ==
  /\ last.op = "cleanupExpiredSessions"
  /\ last.deletedCount > 0
  /\ \E s \in sessions : C24_Resolve(sessions, s.token) = s.userId

(***************************************************************************)
(* C25: a user comes to hold the owner role of an organization only as the *)
(* creator of that organization, in organizations.create, or through an    *)
(* updateOrganizationMemberRole call made by a caller who holds the owner  *)
(* role there.  addToOrganization, acceptOrganizationInvitation and an     *)
(* updateOrganizationMemberRole called by an admin produce no owner row.   *)
(***************************************************************************)
\* the (organization, user) pairs with an owner row in the table rows
C25_Owners(rows) ==
  {<<rows[i].organizationId, rows[i].userId>> :
     i \in {k \in 1..Len(rows) : rows[k].role = "owner"}}

C25_Step ==
  LET new == C25_Owners(orgMembers') \ C25_Owners(orgMembers) IN
  new # {}
  => /\ last'.res = "ok"
     /\ \/ /\ last'.op = "organizations.create"
           /\ Len(organizations') = Len(organizations) + 1
           /\ new = {<<Len(organizations'),
                       organizations'[Len(organizations')].createdBy>>}
        \/ /\ last'.op = "updateOrganizationMemberRole"
           /\ \E memberId \in UserIds, token \in CallerTokens :
                updateOrganizationMemberRole(1, memberId, "owner", "unset",
                                             "unset", "unset", token)
           /\ \A memberId \in UserIds, token \in CallerTokens :
                updateOrganizationMemberRole(1, memberId, "owner", "unset",
                                             "unset", "unset", token)
                => /\ new = {<<1, memberId>>}
                   /\ <<1, getCurrentUserFromToken(token)>>
                        \in C25_Owners(orgMembers)

C25_OwnerOnlyByOwner == [][C25_Step]_vars

\* C25 witness: an owner has just granted the owner role to a user who
\* joined by accepting an invitation, and the organization has two owners
C25_Witness ==
  /\ last.op = "updateOrganizationMemberRole"
  /\ last.res = "ok"
  /\ Cardinality(C25_Owners(orgMembers)) = 2
  /\ \E i \in 1..Len(orgInvitations) : orgInvitations[i].status = "accepted"

(***************************************************************************)
(* C26: a removeFromOrganization that succeeds deletes the                 *)
(* organizationMembers row of the target in that organization and every    *)
(* workspaceMembers row of the target whose organizationId is that         *)
(* organization; every membership row of another user or of another       *)
(* organization stays as it was, in its place.                             *)
(***************************************************************************)
C26_Step ==
  \A orgId \in OrgIds, memberId \in UserIds, token \in CallerTokens :
    ( /\ last'.op = "removeFromOrganization"
      /\ last'.res = "ok"
      /\ removeFromOrganization(orgId, memberId, token) )
    => LET Other(m) == ~(m.organizationId = orgId /\ m.userId = memberId) IN
       /\ orgMembers' = SelectSeq(orgMembers, Other)
       /\ Len(orgMembers') = Len(orgMembers) - 1
       /\ wsMembers' = SelectSeq(wsMembers, Other)

C26_CascadeFrame == [][C26_Step]_vars

\* C26 witness: a member has just been removed from an organization, holds
\* no row of it, and still has a workspace membership in another one
C26_Witness ==
  /\ last.op = "removeFromOrganization"
  /\ last.res = "ok"
  /\ \E o \in OrgIds :
       /\ \A i \in 1..Len(orgMembers) :
            ~(orgMembers[i].organizationId = o
              /\ orgMembers[i].userId = last.memberId)
       /\ \A i \in 1..Len(wsMembers) :
            ~(wsMembers[i].organizationId = o
              /\ wsMembers[i].userId = last.memberId)
       /\ \E i \in 1..Len(wsMembers) :
            /\ wsMembers[i].organizationId # o
            /\ wsMembers[i].userId = last.memberId
       /\ Len(wsMembers) = 3

(***************************************************************************)
(* C27: a removeFromWorkspace by an authenticated caller whose target is   *)
(* an admin of a workspace with exactly one admin row fails with the       *)
(* last-admin error and deletes nothing, whoever the caller is.            *)
(***************************************************************************)
\* the call made in this step: the caller is signed in, the target is the
\* only admin of the workspace
C27_Call(workspaceId, memberId, token) ==
  /\ last'.op = "removeFromWorkspace"
  /\ getCurrentUserFromToken(token) # NoUser
  /\ \E i \in 1..Len(wsMembers) :
       /\ wsMembers[i].workspaceId = workspaceId
       /\ wsMembers[i].userId = memberId
       /\ wsMembers[i].role = "admin"
  /\ Cardinality({i \in 1..Len(wsMembers) :
                    /\ wsMembers[i].workspaceId = workspaceId
                    /\ wsMembers[i].role = "admin"}) = 1
  /\ removeFromWorkspace(workspaceId, memberId, token)

C27_OriginalStep ==
  \A workspaceId \in WorkspaceIds, memberId \in UserIds,
     token \in CallerTokens :
    C27_Call(workspaceId, memberId, token)
    => /\ last'.res = "Cannot remove the last workspace admin"
       /\ wsMembers' = wsMembers

C27_LastAdminError == [][C27_OriginalStep]_vars

(***************************************************************************)
(* C27, amended: such a call deletes nothing; it fails with the last-admin *)
(* error when the caller is the admin removing themself, and with 'Not     *)
(* authorized' when the caller is another user, who cannot be an admin of  *)
(* that workspace.                                                         *)
(***************************************************************************)
C27_AmendedStep ==
  \A workspaceId \in WorkspaceIds, memberId \in UserIds,
     token \in CallerTokens :
    C27_Call(workspaceId, memberId, token)
    => /\ wsMembers' = wsMembers
       /\ last'.res = IF getCurrentUserFromToken(token) = memberId
                        THEN "Cannot remove the last workspace admin"
                        ELSE "Not authorized"

C27_LastAdminStays == [][C27_AmendedStep]_vars

\* C27 witness: the only admin of a workspace that has another member was
\* just refused leaving it
C27_Witness ==
  /\ last.op = "removeFromWorkspace"
  /\ last.res = "Cannot remove the last workspace admin"
  /\ \E w \in WorkspaceIds :
       /\ Cardinality({i \in 1..Len(wsMembers) :
                         /\ wsMembers[i].workspaceId = w
                         /\ wsMembers[i].role = "admin"}) = 1
       /\ \E i \in 1..Len(wsMembers) :
            wsMembers[i].workspaceId = w /\ wsMembers[i].role # "admin"

(***************************************************************************)
(* C28: an acceptOrganizationInvitation by an authenticated caller on a    *)
(* pending invitation with now > expiresAt fails with the expired error,   *)
(* leaves the invitation with status expired and creates no                *)
(* organizationMembers row.                                                *)
(***************************************************************************)
C28_Step ==
  \A inviteToken \in InviteTokens, token \in CallerTokens :
    ( /\ last'.op = "acceptOrganizationInvitation"
      /\ getCurrentUserFromToken(token) # NoUser
      /\ inviteToken \in 1..Len(orgInvitations)
      /\ orgInvitations[inviteToken].status = "pending"
      /\ now > orgInvitations[inviteToken].expiresAt
      /\ acceptOrganizationInvitation(inviteToken, token) )
    => /\ last'.res = "Invitation has expired"
       /\ orgInvitations' =
            [orgInvitations EXCEPT ![inviteToken].status = "expired"]
       /\ orgMembers' = orgMembers

C29_Step ==
  \A i \in 1..Len(orgInvitations) :
    ( /\ now > orgInvitations[i].expiresAt
      /\ orgInvitations'[i].status \in {"accepted", "declined"} )
    => orgInvitations'[i].status = orgInvitations[i].status

C29_ExpiredOnSight == [][C29_Step]_vars

(***************************************************************************)
(* C30: acceptOrganizationInvitation inserts an organizationMembers row    *)
(* only for a caller whose email equals the email of the invitation; for   *)
(* any other authenticated caller who presents the token the call fails    *)
(* and leaves the memberships and the status of the invitation unchanged.  *)
(***************************************************************************)
\* the call made in this step, by an authenticated caller, with the token
\* of an invitation
C30_Call(inviteToken, token) ==
  /\ last'.op = "acceptOrganizationInvitation"
  /\ getCurrentUserFromToken(token) # NoUser
  /\ inviteToken \in 1..Len(orgInvitations)
  /\ acceptOrganizationInvitation(inviteToken, token)

\* the caller is the user the invitation was sent to
C30_Addressee(inviteToken, token) ==
  UserById(getCurrentUserFromToken(token)).email
    = orgInvitations[inviteToken].email

C30_OriginalStep ==
  \A inviteToken \in InviteTokens, token \in CallerTokens :
    C30_Call(inviteToken, token)
    => /\ orgMembers' # orgMembers => C30_Addressee(inviteToken, token)
       /\ ~C30_Addressee(inviteToken, token)
            => /\ last'.res # "ok"
               /\ orgMembers' = orgMembers
               /\ orgInvitations' = orgInvitations

C30_AmendedStep ==
  \A inviteToken \in InviteTokens, token \in CallerTokens :
    C30_Call(inviteToken, token)
    => /\ orgMembers' # orgMembers => C30_Addressee(inviteToken, token)
       /\ ~C30_Addressee(inviteToken, token)
            => /\ last'.res # "ok"
               /\ orgMembers' = orgMembers
               /\ orgInvitations' =
                    IF /\ orgInvitations[inviteToken].status = "pending"
                       /\ now > orgInvitations[inviteToken].expiresAt
                    THEN [orgInvitations EXCEPT
                            ![inviteToken].status = "expired"]
                    ELSE orgInvitations

C31_Consistent ==
  \A i \in 1..Len(messages) :
    /\ messages[i].organizationId
         = workspaces[messages[i].workspaceId].organizationId
    /\ messages[i].parentMessageId # NoMessage
         => /\ messages[i].parentMessageId \in 1..Len(messages)
            /\ messages[messages[i].parentMessageId].workspaceId
                 = messages[i].workspaceId

C31_Step ==
  \A text \in SentTexts, workspaceId \in WorkspaceIds,
     parentMessageId \in 1..(MaxMessages + MaxReplies + 1),
     token \in UserIds :
    ( /\ last'.op = "messages.send"
      /\ \/ parentMessageId \notin 1..Len(messages)
         \/ messages[parentMessageId].workspaceId # workspaceId
      /\ \/ last'.res = "ok"
         \/ messages' # messages
      /\ send(text, workspaceId, parentMessageId, token) )
    => FALSE

C31_ThreadInWorkspace == []C31_Consistent /\ [][C31_Step]_vars

\* C31 witness: a reply to a message of another workspace was just refused
\* while that message has a reply in its own workspace
C31_Witness ==
  /\ last.op = "messages.send"
  /\ last.res = "Invalid parent message"
  /\ \E i, j \in 1..Len(messages) :
       /\ messages[j].parentMessageId = i
       /\ messages[j].workspaceId = messages[i].workspaceId


(***************************************************************************)
(* C36: with every send running as one step, the threadCount of every      *)
(* message equals the number of message rows whose parentMessageId is that *)
(* message, soft-deleted replies included, whatever sequence of send,      *)
(* edit, remove, pin and unpin has run.                                    *)
(***************************************************************************)
C36_Replies(i) == {j \in 1..Len(messages) : messages[j].parentMessageId = i}

C40_Step ==
  \A i \in 1..Len(messages) :
    messages[i].isDeleted =>
      /\ messages'[i].isDeleted
      /\ messages'[i].text = messages[i].text
      /\ messages'[i].isPinned = messages[i].isPinned
      /\ messages'[i].deletedBy = messages[i].deletedBy
      /\ messages'[i].deletedAt = messages[i].deletedAt

C40_DeletedIsFrozen == [][C40_Step]_vars


(***************************************************************************)
(* C34: storeFileMetadata succeeds only for a caller who is an active      *)
(* member of the organization it names and who, when it names a workspace, *)
(* holds a workspaceMembers row of that workspace: the authorization of    *)
(* generateUploadUrl.                                                      *)
(***************************************************************************)
C34_Step ==
  \A storageId \in StorageIds, workspaceId \in ScopedWorkspaceIds,
     token \in UserIds :
    ( /\ last'.op = "storeFileMetadata"
      /\ last'.res = "ok"
      /\ storeFileMetadata(storageId, "workspace_logo", 1, workspaceId,
                           token) )
    => /\ checkOrganizationAccess(getCurrentUserFromToken(token), 1)
       /\ workspaceId # NoWorkspace =>
            WsMemberRows(workspaceId, getCurrentUserFromToken(token)) # {}

C34_StoreAuthorizedAsUpload == [][C34_Step]_vars

(***************************************************************************)
(* C38: a storeFileMetadata call with context workspace_logo removes a     *)
(* files row, and deletes its blob, only when the row is the logo of a     *)
(* workspace that belongs to the organization the call names and that the  *)
(* caller is a member of.                                                  *)
(***************************************************************************)
C38_Step ==
  \A storageId \in StorageIds, workspaceId \in ScopedWorkspaceIds,
     token \in UserIds :
    ( /\ last'.op = "storeFileMetadata"
      /\ storeFileMetadata(storageId, "workspace_logo", 1, workspaceId,
                           token) )
    => \A i \in 1..Len(files) :
         ( \/ \A j \in 1..Len(files') : files'[j].id # files[i].id
           \/ files[i].storageId \in blobs \ blobs' )
         => /\ files[i].workspaceId \in 1..Len(workspaces)
            /\ workspaces[files[i].workspaceId].organizationId = 1
            /\ WsMemberRows(files[i].workspaceId,
                            getCurrentUserFromToken(token)) # {}

C38_LogoWithinScope == [][C38_Step]_vars


(***************************************************************************)
(* C35: deleteFile succeeds only for the uploader of the file or a caller  *)
(* whose organizationMembers row of the file's organization has role owner *)
(* or admin; after a success the row is still in the table with isDeleted  *)
(* true and its blob is out of the store; and from then on every           *)
(* deleteFile and getFileUrl of a signed-in caller on that file fails with *)
(* 'File not found'.                                                       *)
(***************************************************************************)
C35_Gone(fileId) ==
  /\ fileId < nextFile
  /\ \A i \in 1..Len(files) : files[i].id = fileId => files[i].isDeleted

C35_DeleteStep ==
  \A fileId \in FileIds, token \in CallerTokens :
    ( /\ last'.op = "deleteFile"
      /\ last'.res = "ok"
      /\ deleteFile(fileId, token) )
    => /\ \E i \in 1..Len(files) :
            /\ files[i].id = fileId
            /\ ~files[i].isDeleted
            /\ \/ files[i].uploadedBy = getCurrentUserFromToken(token)
               \/ \E m \in 1..Len(orgMembers) :
                    /\ orgMembers[m].organizationId = files[i].organizationId
                    /\ orgMembers[m].userId = getCurrentUserFromToken(token)
                    /\ orgMembers[m].role \in {"owner", "admin"}
       /\ \E j \in 1..Len(files') :
            /\ files'[j].id = fileId
            /\ files'[j].isDeleted
            /\ files'[j].storageId \notin blobs'
       /\ Len(files') = Len(files)

C35_LaterStep ==
  \A fileId \in FileIds :
    C35_Gone(fileId) =>
      /\ C35_Gone(fileId)'
      /\ \A token \in CallerTokens :
           ( /\ getCurrentUserFromToken(token) # NoUser
             /\ \/ last'.op = "deleteFile" /\ deleteFile(fileId, token)
                \/ last'.op = "getFileUrl" /\ getFileUrl(fileId, token) )
           => /\ last'.res = "File not found"
              /\ files' = files
              /\ blobs' = blobs

C35_DeleteByUploaderOrAdmin == [][C35_DeleteStep /\ C35_LaterStep]_vars

\* C35 witness: a file user 2 uploaded was deleted, its row is kept and its
\* blob is gone, and the last deleteFile or getFileUrl was answered
\* 'File not found'
C35_Witness ==
  /\ last.op \in {"deleteFile", "getFileUrl"}
  /\ last.res = "File not found"
  /\ \E i \in 1..Len(files) :
       /\ files[i].isDeleted
       /\ files[i].uploadedBy = 2
       /\ files[i].storageId \notin blobs


(***************************************************************************)
(* C37: no blob is deleted twice.  The single-slot replacement of          *)
(* storeFileMetadata never selects a files row that deleteFile has         *)
(* soft-deleted and whose blob is gone: every soft-deleted row is still in *)
(* the table after the call.                                               *)
(***************************************************************************)
C37_Step ==
  last'.op = "storeFileMetadata" =>
    \A i \in 1..Len(files) :
      (files[i].isDeleted /\ files[i].storageId \notin blobs) =>
        \E j \in 1..Len(files') : files'[j].id = files[i].id

C37_NoBlobDeletedTwice == [][C37_Step]_vars


C32_NeverAbove ==
  \A i \in 1..Len(messages) :
    messages[i].threadCount
      <= Cardinality({j \in 1..Len(messages) :
                        messages[j].parentMessageId = i})

C32_Step ==
  \A client \in Clients :
    ( /\ inFlight[client] # Idle
      /\ inFlight[client].op = "messages.send"
      /\ inFlight[client].await = "patch"
      /\ inFlight'[client] = Idle )
    => messages'[inFlight[client].parentMessageId].threadCount
         = inFlight[client].threadCount + 1

C33_Step ==
  \A client \in Clients :
    ( /\ inFlight[client] # Idle
      /\ inFlight[client].op = "storeFileMetadata"
      /\ inFlight[client].await = "insert"
      /\ inFlight'[client] = Idle )
    => /\ Len(files') = Len(files) + 1
       /\ \A i \in 1..Len(files) : files'[i] = files[i]
       /\ blobs' = blobs

====
